---- MODULE Spec2Model ----
(***************************************************************************)
(* A model of the package timestamp (imarsman/timestamp): the tolerant ISO *)
(* scanner ParseISOTimestamp, the dispatcher parseTimestamp with its entry *)
(* points, the Unix decoder ParseUnixTS and the offset location cache      *)
(* behind LocationFromOffset.                                              *)
(*                                                                         *)
(* A text is a sequence of characters; a character is a one-letter string, *)
(* except "U+0663" (ARABIC-INDIC DIGIT THREE), which stands for a digit    *)
(* that unicode.IsDigit accepts and that takes two bytes in UTF-8.         *)
(***************************************************************************)
EXTENDS Integers, Sequences, FiniteSets, TLC

VARIABLES
    entry,           \* the entry point that was called
    input,           \* the text handed to the entry point
    location,        \* the caller's default location
    isoOnly,         \* parseTimestamp's isoOnly argument
    pc,              \* position of the call
    timeStr,         \* the text the current function works on
    isTS,            \* parseTimestamp's numeric-candidate flag
    attempted,       \* the strategies tried so far, in order
    i,               \* index of the next rune of the scan (1-based)
    currentSection,  \* the scanner's section
    offsetPositive,  \* the zone sign flag
    parts,           \* the eight field buffers
    unparsed,        \* the unparsed runes with their byte positions
    zoneFound,       \* set by the post-scan zone check
    t,               \* the returned time
    err,             \* the returned error
    zoneMaps,        \* the heap of cache maps: map id -> (offset -> handle)
    locationAtomic,  \* the map id published in the atomic value
    nextHandle,      \* id of the next handle time.FixedZone creates
    requested,       \* number of distinct offsets requested so far
    lastCall,        \* what the last LocationFromOffset call did
    prevCall,        \* what the LocationFromOffset call before it did
    calls,           \* number of LocationFromOffset calls begun by the callers
    procPc,          \* each concurrent caller's position in LocationFromOffset
    procOffset,      \* each concurrent caller's offsetSec
    procMap,         \* each concurrent caller's cachedZones (a map id)
    procLoc,         \* each concurrent caller's location
    raced,           \* a map was read or written while a caller was writing it
    fatal,           \* the runtime stopped the program for such an access
    origin,          \* the time a parse returned and a format function was given
    formatFn,        \* the format function that gave the text being parsed again
    rangeArgs,       \* the start and end RangeOverTimes was called with
    start,           \* the start the returned function has captured
    end,             \* the end the returned function has captured
    rangeFn,         \* which function RangeOverTimes returned
    results          \* what the calls of the returned function returned, in order

parseVars == <<entry, input, location, isoOnly, pc, timeStr, isTS, attempted,
               i, currentSection, offsetPositive, parts, unparsed, zoneFound,
               t, err>>
cacheVars == <<zoneMaps, locationAtomic, nextHandle>>
callVars  == <<requested, lastCall, prevCall>>
procVars  == <<calls, procPc, procOffset, procMap, procLoc, raced, fatal>>
rangeVars == <<rangeArgs, start, end, rangeFn, results>>
vars == <<parseVars, cacheVars, callVars, procVars, origin, formatFn, rangeVars>>

----------------------------------------------------------------------------
(* Characters *)

AsciiDigits == {"0", "1", "2", "3", "4", "5", "6", "7", "8", "9"}
NonAsciiDigit == "U+0663"

\* a space outside ASCII, two bytes in UTF-8
NonAsciiSpace == "U+00A0"

\* unicode.IsDigit
IsDigit(r) == r \in AsciiDigits \/ r = NonAsciiDigit

\* unicode.IsSpace
IsSpace(r) == r = " " \/ r = NonAsciiSpace

RECURSIVE ByteLen(_)
\* len(s) of a Go string: the bytes of its runes in UTF-8
ByteLen(s) ==
    IF s = <<>> THEN 0
    ELSE (IF Head(s) \in {NonAsciiDigit, NonAsciiSpace} THEN 2 ELSE 1) + ByteLen(Tail(s))

\* the byte index that range gives for the k-th rune
ByteIndex(s, k) == ByteLen(SubSeq(s, 1, k - 1))

DigitVal(r) ==
    CASE r = "0" -> 0 [] r = "1" -> 1 [] r = "2" -> 2 [] r = "3" -> 3
      [] r = "4" -> 4 [] r = "5" -> 5 [] r = "6" -> 6 [] r = "7" -> 7
      [] r = "8" -> 8 [] r = "9" -> 9

AllAsciiDigits(s) == \A k \in 1..Len(s) : s[k] \in AsciiDigits

RECURSIVE DecimalValue(_)
\* the base-10 value of a string of ASCII digits
DecimalValue(s) ==
    IF s = <<>> THEN 0
    ELSE DecimalValue(SubSeq(s, 1, Len(s) - 1)) * 10 + DigitVal(s[Len(s)])

RECURSIVE Pow10(_)
Pow10(n) == IF n = 0 THEN 1 ELSE 10 * Pow10(n - 1)

RECURSIVE TrimLeft(_)
TrimLeft(s) == IF s # <<>> /\ IsSpace(Head(s)) THEN TrimLeft(Tail(s)) ELSE s

RECURSIVE TrimRight(_)
TrimRight(s) ==
    IF s # <<>> /\ IsSpace(s[Len(s)]) THEN TrimRight(SubSeq(s, 1, Len(s) - 1))
    ELSE s

\* strings.TrimSpace
TrimSpace(s) == TrimRight(TrimLeft(s))

----------------------------------------------------------------------------
(* Locations *)

UTC == [name |-> "UTC", offset |-> 0, id |-> 0]
MST == [name |-> "MST", offset |-> 0 - 25200, id |-> 0 - 1]

\* time.FixedZone("FixedZone", offsetSec): a new handle at every call
FixedZone(offsetSec, id) == [name |-> "FixedZone", offset |-> offsetSec, id |-> id]

NoLocation == [name |-> "", offset |-> 0, id |-> 0 - 2]

----------------------------------------------------------------------------
(* Errors and times *)

\* An error value: its kind, the text its message names, the number its
\* message names, the field its message names and the unparsed runes it lists.
Error(kind, text, n, field, bad) ==
    [kind |-> kind, text |-> text, n |-> n, field |-> field, unparsed |-> bad]

\* a nil error
NoErr == Error("nil", <<>>, 0, "", <<>>)

\* time.Time{}
ZeroTime == [kind |-> "zero", year |-> 1, month |-> 1, day |-> 1, hour |-> 0,
             min |-> 0, sec |-> 0, nsec |-> 0, unix |-> 0, loc |-> UTC]

\* time.Date(y, m, d, h, mn, s, ns, loc), the fields as they were passed
Date(y, m, d, h, mn, s, ns, loc) ==
    [kind |-> "date", year |-> y, month |-> m, day |-> d, hour |-> h,
     min |-> mn, sec |-> s, nsec |-> ns, unix |-> 0, loc |-> loc]

\* time.Unix(s, n), in the local zone until In(location) is applied
Unix(s, n, loc) ==
    [kind |-> "unix", year |-> 0, month |-> 0, day |-> 0, hour |-> 0,
     min |-> 0, sec |-> 0, nsec |-> n, unix |-> s, loc |-> loc]

Local == [name |-> "Local", offset |-> 0, id |-> 0 - 3]

----------------------------------------------------------------------------
(* The offset location cache *)

\* the size a hit must find exceeded to reset the cache
MaxCachedZones == 50

NumProcs == 2

Procs == 1..NumProcs

\* no map object
NoMap == 0 - 1

\* map objects: the published one, one snapshot per caller, one being made
MapIds == 0..(NumProcs + 1)

\* make(map[int]*time.Location)
EmptyMap == [o \in {} |-> NoLocation]

\* cachedZones[offsetSec] = location
MapSet(m, o, l) == [k \in DOMAIN m \cup {o} |-> IF k = o THEN l ELSE m[k]]

\* a map object nothing refers to any more is garbage; its id is free again
Collect(maps, refs) == [m \in MapIds |-> IF m \in refs THEN maps[m] ELSE EmptyMap]

FreeMapId(refs) == CHOOSE m \in MapIds \ refs : \A n \in MapIds \ refs : m <= n

\* The published cache
Cache == zoneMaps[locationAtomic]

\* LocationFromOffset with a reset that keeps the entry it returns
LocationFromOffsetKeepOne(maps, published, handle, refs, offsetSec) ==
    LET cachedZones == maps[published]
    IN  IF offsetSec \in DOMAIN cachedZones
        THEN IF Cardinality(DOMAIN cachedZones) > MaxCachedZones
             THEN LET new == FreeMapId(refs \cup {published})
                  IN  [location |-> cachedZones[offsetSec],
                       zoneMaps |-> Collect([maps EXCEPT ![new] =
                                                MapSet(EmptyMap, offsetSec, cachedZones[offsetSec])],
                                            refs \cup {new}),
                       locationAtomic |-> new, nextHandle |-> handle,
                       hit |-> TRUE, reset |-> TRUE]
             ELSE [location |-> cachedZones[offsetSec], zoneMaps |-> maps,
                   locationAtomic |-> published, nextHandle |-> handle,
                   hit |-> TRUE, reset |-> FALSE]
        ELSE LET l == FixedZone(offsetSec, handle)
             IN  [location |-> l,
                  zoneMaps |-> [maps EXCEPT ![published] = MapSet(cachedZones, offsetSec, l)],
                  locationAtomic |-> published, nextHandle |-> handle + 1,
                  hit |-> FALSE, reset |-> FALSE]

\* LocationFromOffset without the insertion of the handle it made on a miss
LocationFromOffsetNoInsert(maps, published, handle, refs, offsetSec) ==
    LET cachedZones == maps[published]
    IN  IF offsetSec \in DOMAIN cachedZones
        THEN [location |-> cachedZones[offsetSec], zoneMaps |-> maps,
              locationAtomic |-> published, nextHandle |-> handle,
              hit |-> TRUE, reset |-> FALSE]
        ELSE [location |-> FixedZone(offsetSec, handle), zoneMaps |-> maps,
              locationAtomic |-> published, nextHandle |-> handle + 1,
              hit |-> FALSE, reset |-> FALSE]

\* LocationFromOffset run from its first line to its return with no other
\* caller in between: the location returned and the cache state it leaves.
\* refs are the map objects other callers hold.
LocationFromOffset(maps, published, handle, refs, offsetSec) ==
    LET cachedZones == maps[published]
    IN  IF offsetSec \in DOMAIN cachedZones
        THEN IF Cardinality(DOMAIN cachedZones) > MaxCachedZones
             THEN LET new == FreeMapId(refs \cup {published})
                  IN  [location |-> cachedZones[offsetSec],
                       zoneMaps |-> Collect([maps EXCEPT ![new] = EmptyMap],
                                            refs \cup {new}),
                       locationAtomic |-> new, nextHandle |-> handle,
                       hit |-> TRUE, reset |-> TRUE]
             ELSE [location |-> cachedZones[offsetSec], zoneMaps |-> maps,
                   locationAtomic |-> published, nextHandle |-> handle,
                   hit |-> TRUE, reset |-> FALSE]
        ELSE LET l == FixedZone(offsetSec, handle)
             IN  [location |-> l,
                  zoneMaps |-> [maps EXCEPT ![published] = MapSet(cachedZones, offsetSec, l)],
                  locationAtomic |-> published, nextHandle |-> handle + 1,
                  hit |-> FALSE, reset |-> FALSE]

\* ZoneFromHM: the offset it asks LocationFromOffset for
ZoneFromHMOffset(offsetH, offsetM) ==
    LET m == IF offsetM < 0 THEN 0 - offsetM ELSE offsetM
    IN  offsetH * 60 * 60 + m * 60

----------------------------------------------------------------------------
(* ParseISOTimestamp: the scan *)

maxLength == 35

emptySection == 0
yearSection == 1
monthSection == 2
daySection == 3
hourSection == 4
minuteSection == 5
secondSection == 6
subsecondSection == 7
zoneSection == 8
afterSection == 9

yearMax == 4
monthMax == 2
dayMax == 2
hourMax == 2
minuteMax == 2
secondMax == 2
subsecondMax == 9
zoneMax == 4

PartNames == {"year", "month", "day", "hour", "minute", "second", "subsecond", "zone"}

\* the buffers as make([]rune, 0, max) leaves them
EmptyParts == [p \in PartNames |-> <<>>]

\* the max length the code passes to addIf with each buffer
PartMax(p) ==
    CASE p = "year" -> yearMax [] p = "month" -> monthMax [] p = "day" -> dayMax
      [] p = "hour" -> hourMax [] p = "minute" -> minuteMax
      [] p = "second" -> secondMax [] p = "subsecond" -> subsecondMax
      [] p = "zone" -> zoneMax

\* the buffer each case of the digit switch appends to
SectionPart(section) ==
    CASE section = emptySection -> "year" [] section = yearSection -> "year"
      [] section = monthSection -> "month" [] section = daySection -> "day"
      [] section = hourSection -> "hour" [] section = minuteSection -> "minute"
      [] section = secondSection -> "second"
      [] section = subsecondSection -> "subsecond"
      [] section = zoneSection -> "zone"

\* the sections with the subseconds following the day
SectionAfterDaySubsecond(section) ==
    CASE section = emptySection -> monthSection
      [] section = yearSection -> monthSection
      [] section = monthSection -> daySection
      [] section = daySection -> subsecondSection
      [] section = hourSection -> minuteSection
      [] section = minuteSection -> secondSection
      [] section = secondSection -> subsecondSection
      [] section = subsecondSection -> zoneSection
      [] section = zoneSection -> afterSection

\* the sections with the year following the zone
SectionAfterWrap(section) ==
    CASE section = emptySection -> monthSection
      [] section = yearSection -> monthSection
      [] section = monthSection -> daySection
      [] section = daySection -> hourSection
      [] section = hourSection -> minuteSection
      [] section = minuteSection -> secondSection
      [] section = secondSection -> subsecondSection
      [] section = subsecondSection -> zoneSection
      [] section = zoneSection -> yearSection

\* the section each case of the digit switch moves to when its buffer is full
SectionAfter(section) ==
    CASE section = emptySection -> monthSection
      [] section = yearSection -> monthSection
      [] section = monthSection -> daySection
      [] section = daySection -> hourSection
      [] section = hourSection -> minuteSection
      [] section = minuteSection -> secondSection
      [] section = secondSection -> subsecondSection
      [] section = subsecondSection -> zoneSection
      [] section = zoneSection -> afterSection

\* addIf reporting its max one rune early and dropping the rune that fills
addIfDropLast(part, add, max) ==
    LET added == IF Len(part) < max - 1 THEN Append(part, add) ELSE part
    IN  <<added, Len(added) >= max - 1>>

\* addIf: the buffer and the flag that it is at its max
addIf(part, add, max) ==
    LET added == IF Len(part) < max THEN Append(part, add) ELSE part
    IN  <<added, Len(added) = max>>

\* no buffer counts as all zeros
isZeroNever(part) == FALSE

\* isZero
isZero(part) == \A k \in 1..Len(part) : part[k] = "0"

\* an entry of the unparsed list: the rune and its byte position
Unparsed(r, pos) == [rune |-> r, pos |-> pos]

\* the range loop with a sign that is taken in the Zone section as well
ScanRuneSignInZone(section, positive, bufs, bad, r, pos) ==
    LET same == [section |-> section, positive |-> positive, parts |-> bufs,
                 unparsed |-> bad, break |-> FALSE]
        flagged == [same EXCEPT !.unparsed = Append(bad, Unparsed(r, pos))]
    IN  IF IsDigit(r)
        THEN IF section \in emptySection..zoneSection
             THEN LET p == SectionPart(section)
                      res == addIf(bufs[p], r, PartMax(p))
                      entered == IF section = emptySection THEN yearSection ELSE section
                  IN  [same EXCEPT !.parts = [bufs EXCEPT ![p] = res[1]],
                                   !.section = IF res[2] THEN SectionAfter(section)
                                               ELSE entered]
             ELSE flagged
        ELSE IF r = "."
        THEN same
        ELSE IF r = "-" \/ r = "+"
        THEN IF section = subsecondSection \/ section = zoneSection
             THEN [same EXCEPT !.positive = (r = "+"), !.section = zoneSection]
             ELSE same
        ELSE IF r \in {"T", "t"} \/ r = ":" \/ r = "/"
        THEN same
        ELSE IF r \in {"Z", "z"}
        THEN IF section = zoneSection \/ section = subsecondSection
             THEN [same EXCEPT !.parts = [bufs EXCEPT !.zone = bufs.zone \o <<"0", "0", "0", "0">>],
                               !.break = TRUE]
             ELSE flagged
        ELSE IF IsSpace(r)
        THEN same
        ELSE flagged

\* One pass of the range loop over the rune r at byte position pos: the
\* scanner's variables after it, and whether the loop was left by break.
ScanRune(section, positive, bufs, bad, r, pos) ==
    LET same == [section |-> section, positive |-> positive, parts |-> bufs,
                 unparsed |-> bad, break |-> FALSE]
        flagged == [same EXCEPT !.unparsed = Append(bad, Unparsed(r, pos))]
    IN  IF IsDigit(r)
        THEN IF section \in emptySection..zoneSection
             THEN LET p == SectionPart(section)
                      res == addIf(bufs[p], r, PartMax(p))
                      entered == IF section = emptySection THEN yearSection ELSE section
                  IN  [same EXCEPT !.parts = [bufs EXCEPT ![p] = res[1]],
                                   !.section = IF res[2] THEN SectionAfter(section)
                                               ELSE entered]
             ELSE flagged
        ELSE IF r = "."
        THEN same
        ELSE IF r = "-" \/ r = "+"
        THEN IF section = subsecondSection
             THEN [same EXCEPT !.positive = (r = "+"), !.section = zoneSection]
             ELSE same
        ELSE IF r \in {"T", "t"} \/ r = ":" \/ r = "/"
        THEN same
        ELSE IF r \in {"Z", "z"}
        THEN IF section = zoneSection \/ section = subsecondSection
             THEN [same EXCEPT !.parts = [bufs EXCEPT !.zone = bufs.zone \o <<"0", "0", "0", "0">>],
                               !.break = TRUE]
             ELSE flagged
        ELSE IF IsSpace(r)
        THEN same
        ELSE flagged

----------------------------------------------------------------------------
(* ParseISOTimestamp: after the scan *)

\* the bytes of a Go string, one token per byte
RECURSIVE Bytes(_)
Bytes(s) ==
    IF s = <<>> THEN <<>>
    ELSE (IF Head(s) = NonAsciiDigit THEN <<"0xD9", "0xA3">> ELSE <<Head(s)>>)
         \o Bytes(Tail(s))

\* atoi2: the first two bytes as a number
atoi2(in) ==
    LET b == Bytes(in)
    IN  IF b[1] \notin AsciiDigits \/ b[2] \notin AsciiDigits
        THEN [ok |-> FALSE, val |-> 0]
        ELSE [ok |-> TRUE, val |-> DigitVal(b[1]) * 10 + DigitVal(b[2])]

\* atoi4: the first four bytes as a number
atoi4(in) ==
    LET b == Bytes(in)
    IN  IF \E k \in 1..4 : b[k] \notin AsciiDigits
        THEN [ok |-> FALSE, val |-> 0]
        ELSE [ok |-> TRUE, val |-> DigitVal(b[1]) * 1000 + DigitVal(b[2]) * 100
                                   + DigitVal(b[3]) * 10 + DigitVal(b[4])]

\* strconv.Atoi and strconv.ParseInt(s, 10, 64) of a text without sign
Atoi(s) ==
    IF s = <<>> \/ ~AllAsciiDigits(s)
    THEN [ok |-> FALSE, val |-> 0]
    ELSE [ok |-> TRUE, val |-> DecimalValue(s)]

\* a field that is decoded only when its value is below 60
FieldBelow60(part, decoded) ==
    IF isZero(part) THEN [ok |-> TRUE, val |-> 0]
    ELSE IF decoded.ok /\ Len(part) = 2 /\ decoded.val >= 60 THEN [ok |-> FALSE, val |-> 0]
    ELSE decoded

\* a field that is all zeros is not decoded
Field(part, decoded) == IF isZero(part) THEN [ok |-> TRUE, val |-> 0] ELSE decoded

\* the zone buffer after the zone length check
PaddedZone(zone) ==
    IF Len(zone) = 0 THEN zone \o <<"0", "0", "0", "0">>
    ELSE IF Len(zone) = 2 THEN zone \o <<"0", "0">>
    ELSE zone

\* the buffers when each empty one of hour, minute and second gets "00"
DefaultedEach(bufs) ==
    LET z == [bufs EXCEPT !.zone = PaddedZone(bufs.zone)]
        pad(part) == IF Len(part) = 0 THEN <<"0", "0">> ELSE part
    IN  [z EXCEPT !.hour = pad(bufs.hour),
                  !.minute = pad(bufs.minute),
                  !.second = pad(bufs.second)]

\* the buffers after the zone padding and the date-only default
Defaulted(bufs) ==
    LET z == [bufs EXCEPT !.zone = PaddedZone(bufs.zone)]
    IN  IF Len(bufs.hour) = 0 /\ Len(bufs.minute) = 0 /\ Len(bufs.second) = 0
        THEN [z EXCEPT !.hour = bufs.hour \o <<"0", "0">>,
                       !.minute = bufs.minute \o <<"0", "0">>,
                       !.second = bufs.second \o <<"0", "0">>]
        ELSE z

\* the same checks with the month looked at before the year
ShortFieldMonthFirst(bufs) ==
    IF Len(bufs.month) # monthMax THEN "month"
    ELSE IF Len(bufs.year) # yearMax THEN "year"
    ELSE IF Len(bufs.day) # dayMax THEN "day"
    ELSE IF Len(bufs.hour) # hourMax THEN "hour"
    ELSE IF Len(bufs.minute) # minuteMax THEN "minute"
    ELSE IF Len(bufs.second) # secondMax THEN "second"
    ELSE ""

\* the first of year .. second whose buffer has not its max length, "" if none
ShortField(bufs) ==
    IF Len(bufs.year) # yearMax THEN "year"
    ELSE IF Len(bufs.month) # monthMax THEN "month"
    ELSE IF Len(bufs.day) # dayMax THEN "day"
    ELSE IF Len(bufs.hour) # hourMax THEN "hour"
    ELSE IF Len(bufs.minute) # minuteMax THEN "minute"
    ELSE IF Len(bufs.second) # secondMax THEN "second"
    ELSE ""

\* the subsecond buffer as a plain number
SubsecondsUnscaled(part) ==
    IF Len(part) > 0 /\ ~isZero(part) THEN Atoi(part) ELSE [ok |-> TRUE, val |-> 0]

\* the subsecond buffer as nanoseconds
Subseconds(part) ==
    IF Len(part) > 0 /\ ~isZero(part)
    THEN LET n == Atoi(part)
         IN  IF ~n.ok THEN n
             ELSE IF Len(part) < subsecondMax
             THEN [ok |-> TRUE, val |-> n.val * Pow10(subsecondMax - Len(part))]
             ELSE n
    ELSE [ok |-> TRUE, val |-> 0]

\* the zone length check: a zone of 1 or of 3 characters is refused
AmbiguousZone(zoneLen) == zoneLen = 1 \/ zoneLen = 3

\* the offset in seconds from its hours, its minutes and the sign that was read
OffsetSeconds(offsetH, offsetM, positive) ==
    IF positive THEN offsetH * 60 * 60 + offsetM * 60
    ELSE 0 - (offsetH * 60 * 60 + offsetM * 60)

\* the switch over offsetM: minutes in a 15 minute increment
OnQuarterHourOr10(offsetM) == offsetM \in {0, 10, 15, 30, 45}

OnQuarterHour(offsetM) == offsetM \in {0, 15, 30, 45}

\* the checks after the scan with the field lengths looked at first
AfterScanFieldsFirst(text, loc, bufs, bad, positive) ==
    LET out(b, found, e, tm, lookup, sec) ==
            [parts |-> b, zoneFound |-> found, err |-> e, t |-> tm,
             lookup |-> lookup, offsetSec |-> sec]
        fail(b, found, e) == out(b, found, e, ZeroTime, FALSE, 0)
        zoneLen == Len(bufs.zone)
        found == zoneLen # 0
        b == Defaulted(bufs)
        short == ShortField(b)
        y == Field(b.year, atoi4(b.year))
        m == Field(b.month, atoi2(b.month))
        d == Field(b.day, atoi2(b.day))
        h == Field(b.hour, atoi2(b.hour))
        mn == Field(b.minute, atoi2(b.minute))
        s == Field(b.second, atoi2(b.second))
        subseconds == Subseconds(b.subsecond)
        offsetH == Field(SubSeq(b.zone, 1, 2), Atoi(SubSeq(b.zone, 1, 2)))
        offsetM == Field(SubSeq(b.zone, 3, Len(b.zone)), Atoi(SubSeq(b.zone, 3, Len(b.zone))))
        offsetSec == OffsetSeconds(offsetH.val, offsetM.val, positive)
        date(l) == Date(y.val, m.val, d.val, h.val, mn.val, s.val, subseconds.val, l)
    IN  IF short # ""
        THEN fail(b, found, Error("FieldLengthMismatch", <<>>, 0, short, <<>>))
        ELSE IF Len(bad) > 0
        THEN fail(bufs, FALSE, Error("UnparsedCharacter", text, 0, "", bad))
        ELSE IF AmbiguousZone(zoneLen)
        THEN fail(bufs, TRUE, Error("AmbiguousZoneLength", <<>>, zoneLen, "", <<>>))
        ELSE IF ~(y.ok /\ m.ok /\ d.ok /\ h.ok /\ mn.ok /\ s.ok)
        THEN fail(b, found, Error("NumericDecodeFailure", <<>>, 0, "", <<>>))
        ELSE IF ~subseconds.ok
        THEN fail(b, found, Error("NumericDecodeFailure", <<>>, 0, "subsecond", <<>>))
        ELSE IF ~found
        THEN out(b, found, NoErr, date(loc), FALSE, 0)
        ELSE IF isZero(b.zone)
        THEN out(b, found, NoErr, date(UTC), FALSE, 0)
        ELSE IF ~offsetH.ok \/ ~offsetM.ok
        THEN fail(b, found, Error("NumericDecodeFailure", <<>>, 0, "zone", <<>>))
        ELSE IF ~OnQuarterHour(offsetM.val)
        THEN fail(b, found, Error("OffsetNotOnQuarterHour", <<>>, offsetM.val, "", <<>>))
        ELSE out(b, found, NoErr, date(NoLocation), TRUE, offsetSec)

\* the checks after the scan with the location looked up before the minutes
\* of the offset are checked
AfterScanLookupFirst(text, loc, bufs, bad, positive) ==
    LET out(b, found, e, tm, lookup, sec) ==
            [parts |-> b, zoneFound |-> found, err |-> e, t |-> tm,
             lookup |-> lookup, offsetSec |-> sec]
        fail(b, found, e) == out(b, found, e, ZeroTime, FALSE, 0)
        zoneLen == Len(bufs.zone)
        found == zoneLen # 0
        b == Defaulted(bufs)
        short == ShortField(b)
        y == Field(b.year, atoi4(b.year))
        m == Field(b.month, atoi2(b.month))
        d == Field(b.day, atoi2(b.day))
        h == Field(b.hour, atoi2(b.hour))
        mn == Field(b.minute, atoi2(b.minute))
        s == Field(b.second, atoi2(b.second))
        subseconds == Subseconds(b.subsecond)
        offsetH == Field(SubSeq(b.zone, 1, 2), Atoi(SubSeq(b.zone, 1, 2)))
        offsetM == Field(SubSeq(b.zone, 3, Len(b.zone)), Atoi(SubSeq(b.zone, 3, Len(b.zone))))
        offsetSec == OffsetSeconds(offsetH.val, offsetM.val, positive)
        date(l) == Date(y.val, m.val, d.val, h.val, mn.val, s.val, subseconds.val, l)
    IN  IF Len(bad) > 0
        THEN fail(bufs, FALSE, Error("UnparsedCharacter", text, 0, "", bad))
        ELSE IF AmbiguousZone(zoneLen)
        THEN fail(bufs, TRUE, Error("AmbiguousZoneLength", <<>>, zoneLen, "", <<>>))
        ELSE IF short # ""
        THEN fail(b, found, Error("FieldLengthMismatch", <<>>, 0, short, <<>>))
        ELSE IF ~(y.ok /\ m.ok /\ d.ok /\ h.ok /\ mn.ok /\ s.ok)
        THEN fail(b, found, Error("NumericDecodeFailure", <<>>, 0, "", <<>>))
        ELSE IF ~subseconds.ok
        THEN fail(b, found, Error("NumericDecodeFailure", <<>>, 0, "subsecond", <<>>))
        ELSE IF ~found
        THEN out(b, found, NoErr, date(loc), FALSE, 0)
        ELSE IF isZero(b.zone)
        THEN out(b, found, NoErr, date(UTC), FALSE, 0)
        ELSE IF ~offsetH.ok \/ ~offsetM.ok
        THEN fail(b, found, Error("NumericDecodeFailure", <<>>, 0, "zone", <<>>))
        ELSE IF ~OnQuarterHour(offsetM.val)
        THEN out(b, found, Error("OffsetNotOnQuarterHour", <<>>, offsetM.val, "", <<>>),
                 ZeroTime, TRUE, offsetSec)
        ELSE out(b, found, NoErr, date(NoLocation), TRUE, offsetSec)

\* The part of ParseISOTimestamp after the range loop, up to the call of
\* LocationFromOffset: the buffers, zoneFound, the error, the time (its
\* location still missing when lookup is set) and the offset to look up.
AfterScan(text, loc, bufs, bad, positive) ==
    LET out(b, found, e, tm, lookup, sec) ==
            [parts |-> b, zoneFound |-> found, err |-> e, t |-> tm,
             lookup |-> lookup, offsetSec |-> sec]
        fail(b, found, e) == out(b, found, e, ZeroTime, FALSE, 0)
        zoneLen == Len(bufs.zone)
        found == zoneLen # 0
        b == Defaulted(bufs)
        short == ShortField(b)
        y == Field(b.year, atoi4(b.year))
        m == Field(b.month, atoi2(b.month))
        d == Field(b.day, atoi2(b.day))
        h == Field(b.hour, atoi2(b.hour))
        mn == Field(b.minute, atoi2(b.minute))
        s == Field(b.second, atoi2(b.second))
        subseconds == Subseconds(b.subsecond)
        offsetH == Field(SubSeq(b.zone, 1, 2), Atoi(SubSeq(b.zone, 1, 2)))
        offsetM == Field(SubSeq(b.zone, 3, Len(b.zone)), Atoi(SubSeq(b.zone, 3, Len(b.zone))))
        offsetSec == OffsetSeconds(offsetH.val, offsetM.val, positive)
        date(l) == Date(y.val, m.val, d.val, h.val, mn.val, s.val, subseconds.val, l)
    IN  IF Len(bad) > 0
        THEN fail(bufs, FALSE, Error("UnparsedCharacter", text, 0, "", bad))
        ELSE IF AmbiguousZone(zoneLen)
        THEN fail(bufs, TRUE, Error("AmbiguousZoneLength", <<>>, zoneLen, "", <<>>))
        ELSE IF short # ""
        THEN fail(b, found, Error("FieldLengthMismatch", <<>>, 0, short, <<>>))
        ELSE IF ~(y.ok /\ m.ok /\ d.ok /\ h.ok /\ mn.ok /\ s.ok)
        THEN fail(b, found, Error("NumericDecodeFailure", <<>>, 0, "", <<>>))
        ELSE IF ~subseconds.ok
        THEN fail(b, found, Error("NumericDecodeFailure", <<>>, 0, "subsecond", <<>>))
        ELSE IF ~found
        THEN out(b, found, NoErr, date(loc), FALSE, 0)
        ELSE IF isZero(b.zone)
        THEN out(b, found, NoErr, date(UTC), FALSE, 0)
        ELSE IF ~offsetH.ok \/ ~offsetM.ok
        THEN fail(b, found, Error("NumericDecodeFailure", <<>>, 0, "zone", <<>>))
        ELSE IF ~OnQuarterHour(offsetM.val)
        THEN fail(b, found, Error("OffsetNotOnQuarterHour", <<>>, offsetM.val, "", <<>>))
        ELSE out(b, found, NoErr, date(NoLocation), TRUE, offsetSec)

RECURSIVE ScanFrom(_, _, _)
\* the range loop from the k-th rune of text on, entered with the scanner's
\* variables as in st: the variables when the loop is left
ScanFrom(text, k, st) ==
    IF k > Len(text) \/ st.break THEN st
    ELSE ScanFrom(text, k + 1,
                  ScanRune(st.section, st.positive, st.parts, st.unparsed,
                           text[k], ByteIndex(text, k)))

\* ParseISOTimestamp(text, loc) from its first line to its call of
\* LocationFromOffset: the error, the time and the offset to look up
ParseISOTimestamp(text, loc) ==
    LET st == ScanFrom(text, 1, [section |-> emptySection, positive |-> FALSE,
                                 parts |-> EmptyParts, unparsed |-> <<>>,
                                 break |-> FALSE])
        a == AfterScan(text, loc, st.parts, st.unparsed, st.positive)
    IN  IF ByteLen(text) > maxLength
        THEN [err |-> Error("InputTooLong", text, ByteLen(text), "", <<>>),
              t |-> ZeroTime, lookup |-> FALSE, offsetSec |-> 0]
        ELSE [err |-> a.err, t |-> a.t, lookup |-> a.lookup, offsetSec |-> a.offsetSec]

----------------------------------------------------------------------------
(* The Unix decoder *)

\* a pattern that any two characters or more match
reDigitsMatchLoose(s) == Len(s) > 1

\* reDigits.MatchString: ^\d+\.?\d+$
reDigitsMatch(s) ==
    \E k \in 1..(Len(s) - 1) :
        LET a == SubSeq(s, 1, k)
            b == SubSeq(s, k + 1, Len(s))
        IN  /\ AllAsciiDigits(a)
            /\ \/ AllAsciiDigits(b)
               \/ b[1] = "." /\ Len(b) > 1 /\ AllAsciiDigits(Tail(b))

\* the index of the first "." of s, 0 if there is none
FirstDot(s) ==
    IF \E k \in 1..Len(s) : s[k] = "."
    THEN CHOOSE k \in 1..Len(s) : s[k] = "." /\ \A j \in 1..(k - 1) : s[j] # "."
    ELSE 0

\* strings.SplitN(s, ".", 2)
SplitN2(s) ==
    IF FirstDot(s) = 0 THEN <<s>>
    ELSE <<SubSeq(s, 1, FirstDot(s) - 1), SubSeq(s, FirstDot(s) + 1, Len(s))>>

\* int64(float64(n) * math.Pow(10, 9 - digits))
ScaleNanos(n, digits) ==
    IF digits <= 9 THEN n * Pow10(9 - digits) ELSE n \div Pow10(digits - 9)

\* parseUnixTS: seconds, nanoseconds and whether there was no error
parseUnixTS(text) ==
    LET sa == SplitN2(text)
        s == Atoi(sa[1])
        n == Atoi(sa[2])
    IN  IF ~s.ok THEN [ok |-> FALSE, s |-> 0, n |-> 0]
        ELSE IF Len(sa) # 2 THEN [ok |-> TRUE, s |-> s.val, n |-> 0]
        ELSE IF ~n.ok THEN [ok |-> FALSE, s |-> s.val, n |-> 0]
        ELSE [ok |-> TRUE, s |-> s.val, n |-> ScaleNanos(n.val, Len(sa[2]))]

\* ParseUnixTS: the time and error it returns, or the panic of a slice
\* expression whose low bound is above its high bound
ParseUnixTS(text) ==
    LET timeStrLength == ByteLen(text)
        ret(tm, e) == [panic |-> FALSE, t |-> tm, err |-> e]
        decoded(toSend) ==
            LET r == parseUnixTS(toSend)
            IN  IF ~r.ok
                THEN ret(ZeroTime, Error("ParseIntFailure", toSend, 0, "", <<>>))
                ELSE ret(Unix(r.s, r.n, Local), NoErr)
    IN  IF reDigitsMatch(text) /\ timeStrLength > 6
        THEN IF timeStrLength > 10
             THEN IF 11 > timeStrLength - 1
                  THEN [panic |-> TRUE, t |-> ZeroTime, err |-> NoErr]
                  ELSE decoded(SubSeq(text, 1, 10) \o <<".">>
                               \o SubSeq(text, 12, timeStrLength - 1))
             ELSE decoded(text)
        ELSE ret(ZeroTime, Error("UnixDecodeFailure", text, 0, "", <<>>))

\* isTS with only the length of a compact date set apart
NumericCandidateBut8(text) == reDigitsMatch(text) /\ ByteLen(text) # 8

\* parseTimestamp's isTS: digits, or digits with a decimal point, of a length
\* that is neither that of a compact date nor that of a compact date and time
NumericCandidate(text) ==
    reDigitsMatch(text) /\ ByteLen(text) # 8 /\ ByteLen(text) # 14

\* the time as time.Unix made it, in the local zone
InLocal(tm, loc) == tm

\* t.In(loc)
In(tm, loc) == [tm EXCEPT !.loc = loc]

----------------------------------------------------------------------------
(* The fallback formats: time.ParseInLocation over nonISOTimeFormats *)

\* the layouts of nonISOTimeFormats, each as the chunks time.Parse cuts it in
nonISOTimeFormats == <<
    <<"stdWeekDay", ",", " ", "stdZeroDay", " ", "stdMonth", " ", "stdLongYear", " ", "stdHour", ":", "stdZeroMinute", ":", "stdZeroSecond", " ", "G", "M", "T">>,
    <<"stdWeekDay", ",", " ", "stdZeroDay", " ", "stdMonth", " ", "stdLongYear", " ", "stdHour", ":", "stdZeroMinute", ":", "stdZeroSecond", " ", "stdNumTZ">>,
    <<"stdWeekDay", ",", " ", "stdZeroDay", " ", "stdMonth", " ", "stdLongYear", " ", "stdHour", ":", "stdZeroMinute", ":", "stdZeroSecond">>,
    <<"stdLongWeekDay", ",", " ", "stdZeroDay", "-", "stdMonth", "-", "stdLongYear", " ", "stdHour", ":", "stdZeroMinute", ":", "stdZeroSecond">>,
    <<"stdZeroDay", " ", "stdMonth", " ", "stdYear", " ", "stdHour", ":", "stdZeroMinute", " ", "stdNumTZ">>,
    <<"stdLongYear", "-", "stdZeroMonth", "-", "stdZeroDay", " ", "stdHour", "-", "stdZeroMinute", "-", "stdZeroSecond">>,
    <<"stdLongYear", "stdZeroMonth", "stdZeroDay", "stdHour", "stdZeroMinute", "stdZeroSecond">>,
    <<"stdLongYear", "stdZeroMonth", "stdZeroDay">>,
    <<"stdZeroMonth", "/", "stdZeroDay", "/", "stdLongYear">>,
    <<"stdNumMonth", "/", "stdDay", "/", "stdLongYear">>
>>

shortDayNames == <<<<"S", "u", "n">>, <<"M", "o", "n">>, <<"T", "u", "e">>, <<"W", "e", "d">>, <<"T", "h", "u">>, <<"F", "r", "i">>, <<"S", "a", "t">>>>

longDayNames == <<<<"S", "u", "n", "d", "a", "y">>,
    <<"M", "o", "n", "d", "a", "y">>,
    <<"T", "u", "e", "s", "d", "a", "y">>,
    <<"W", "e", "d", "n", "e", "s", "d", "a", "y">>,
    <<"T", "h", "u", "r", "s", "d", "a", "y">>,
    <<"F", "r", "i", "d", "a", "y">>,
    <<"S", "a", "t", "u", "r", "d", "a", "y">>>>

shortMonthNames == <<<<"J", "a", "n">>,
    <<"F", "e", "b">>,
    <<"M", "a", "r">>,
    <<"A", "p", "r">>,
    <<"M", "a", "y">>,
    <<"J", "u", "n">>,
    <<"J", "u", "l">>,
    <<"A", "u", "g">>,
    <<"S", "e", "p">>,
    <<"O", "c", "t">>,
    <<"N", "o", "v">>,
    <<"D", "e", "c">>>>

IsPrefix(p, v) == Len(p) <= Len(v) /\ SubSeq(v, 1, Len(p)) = p

\* lookup: the index of the name that starts the value, 0 if none does
lookup(names, v) ==
    IF \E k \in 1..Len(names) : IsPrefix(names[k], v)
    THEN CHOOSE k \in 1..Len(names) :
             IsPrefix(names[k], v) /\ \A j \in 1..(k - 1) : ~IsPrefix(names[j], v)
    ELSE 0

\* getnum: one or two leading digits (two when fixed) and how many were read
GetNum(v, fixed) ==
    IF Len(v) = 0 \/ v[1] \notin AsciiDigits THEN [ok |-> FALSE, val |-> 0, len |-> 0]
    ELSE IF Len(v) = 1 \/ v[2] \notin AsciiDigits
    THEN IF fixed THEN [ok |-> FALSE, val |-> 0, len |-> 0]
         ELSE [ok |-> TRUE, val |-> DigitVal(v[1]), len |-> 1]
    ELSE [ok |-> TRUE, val |-> DigitVal(v[1]) * 10 + DigitVal(v[2]), len |-> 2]

Drop(v, n) == SubSeq(v, n + 1, Len(v))

\* the number of digits that follow the first character of v
RECURSIVE DigitRun(_)
DigitRun(v) == IF v # <<>> /\ Head(v) \in AsciiDigits THEN 1 + DigitRun(Tail(v)) ELSE 0

daysIn(month, year) ==
    IF month = 2
    THEN (IF year % 4 = 0 /\ (year % 100 # 0 \/ year % 400 = 0) THEN 29 ELSE 28)
    ELSE IF month \in {4, 6, 9, 11} THEN 30 ELSE 31

\* what time.Parse has read so far
NothingRead == [ok |-> TRUE, year |-> 0, month |-> 1, day |-> 1, hour |-> 0,
                min |-> 0, sec |-> 0, nsec |-> 0, zoned |-> FALSE, zoneOffset |-> 0]

Bad == [NothingRead EXCEPT !.ok = FALSE]

\* time.Parse: the value read against the chunks of the layout, left to right
RECURSIVE ParseChunks(_, _, _)
ParseChunks(layout, v, got) ==
    IF layout = <<>>
    THEN IF v # <<>> THEN Bad
         ELSE IF got.day < 1 \/ got.day > daysIn(got.month, got.year) THEN Bad
         ELSE got
    ELSE
    LET std == Head(layout)
        rest == Tail(layout)
        num(fixed, field, limit) ==
            LET r == GetNum(v, fixed)
            IN  IF ~r.ok \/ r.val >= limit THEN Bad
                ELSE ParseChunks(rest, Drop(v, r.len), [got EXCEPT ![field] = r.val])
    IN  CASE std = "stdWeekDay" ->
               IF lookup(shortDayNames, v) = 0 THEN Bad
               ELSE ParseChunks(rest, Drop(v, 3), got)
          [] std = "stdLongWeekDay" ->
               IF lookup(longDayNames, v) = 0 THEN Bad
               ELSE ParseChunks(rest, Drop(v, Len(longDayNames[lookup(longDayNames, v)])), got)
          [] std = "stdMonth" ->
               IF lookup(shortMonthNames, v) = 0 THEN Bad
               ELSE ParseChunks(rest, Drop(v, 3),
                                [got EXCEPT !.month = lookup(shortMonthNames, v)])
          [] std = "stdLongYear" ->
               IF Len(v) < 4 \/ ~AllAsciiDigits(SubSeq(v, 1, 4)) THEN Bad
               ELSE ParseChunks(rest, Drop(v, 4),
                                [got EXCEPT !.year = DecimalValue(SubSeq(v, 1, 4))])
          [] std = "stdYear" ->
               IF Len(v) < 2 \/ ~AllAsciiDigits(SubSeq(v, 1, 2)) THEN Bad
               ELSE LET y == DecimalValue(SubSeq(v, 1, 2))
                    IN  ParseChunks(rest, Drop(v, 2),
                            [got EXCEPT !.year = IF y >= 69 THEN y + 1900 ELSE y + 2000])
          [] std = "stdZeroMonth" ->
               IF GetNum(v, TRUE).ok /\ GetNum(v, TRUE).val = 0 THEN Bad
               ELSE num(TRUE, "month", 13)
          [] std = "stdNumMonth" ->
               IF GetNum(v, FALSE).ok /\ GetNum(v, FALSE).val = 0 THEN Bad
               ELSE num(FALSE, "month", 13)
          [] std = "stdZeroDay" -> num(TRUE, "day", 100)
          [] std = "stdDay" -> num(FALSE, "day", 100)
          [] std = "stdHour" -> num(FALSE, "hour", 24)
          [] std = "stdZeroMinute" -> num(TRUE, "min", 60)
          [] std = "stdZeroSecond" ->
               LET r == GetNum(v, TRUE)
                   after == Drop(v, 2)
                   frac == DigitRun(Drop(after, 1))
               IN  IF ~r.ok \/ r.val >= 60 THEN Bad
                   ELSE IF Len(after) >= 2 /\ after[1] \in {".", ","} /\ frac > 0
                   THEN ParseChunks(rest, Drop(after, 1 + frac),
                            [got EXCEPT !.sec = r.val,
                                        !.nsec = ScaleNanos(
                                            DecimalValue(SubSeq(after, 2, 1 + (IF frac > 9 THEN 9 ELSE frac))),
                                            IF frac > 9 THEN 9 ELSE frac)])
                   ELSE ParseChunks(rest, after, [got EXCEPT !.sec = r.val])
          [] std = "stdNumTZ" ->
               IF Len(v) < 5 \/ v[1] \notin {"+", "-"} THEN Bad
               ELSE LET hr == GetNum(SubSeq(v, 2, 3), TRUE)
                        mm == GetNum(SubSeq(v, 4, 5), TRUE)
                        secs == (hr.val * 60 + mm.val) * 60
                    IN  IF ~hr.ok \/ ~mm.ok \/ hr.val > 24 \/ mm.val > 60 THEN Bad
                        ELSE ParseChunks(rest, Drop(v, 5),
                                [got EXCEPT !.zoned = TRUE,
                                            !.zoneOffset = IF v[1] = "-" THEN 0 - secs ELSE secs])
          [] std = " " ->
               IF v # <<>> /\ v[1] # " " THEN Bad
               ELSE ParseChunks(TrimLeft(rest), TrimLeft(v), got)
          [] OTHER ->
               IF v = <<>> \/ v[1] # std THEN Bad
               ELSE ParseChunks(rest, Tail(v), got)

\* time.ParseInLocation(format, value, loc): whether the value matches, and
\* the time in loc, or in the zone the value names when its offset is not loc's
ParseInLocation(layout, v, loc) ==
    LET got == ParseChunks(layout, v, NothingRead)
        zone == IF ~got.zoned \/ got.zoneOffset = loc.offset THEN loc
                ELSE [name |-> "", offset |-> got.zoneOffset, id |-> 0 - 4]
    IN  [ok |-> got.ok,
         t |-> Date(got.year, got.month, got.day, got.hour, got.min, got.sec,
                    got.nsec, zone)]

\* the same loop over a list that lacks the last format
FirstFormatButLast(v, loc) ==
    IF \E k \in 1..(Len(nonISOTimeFormats) - 1) : ParseInLocation(nonISOTimeFormats[k], v, loc).ok
    THEN CHOOSE k \in 1..(Len(nonISOTimeFormats) - 1) :
             /\ ParseInLocation(nonISOTimeFormats[k], v, loc).ok
             /\ \A j \in 1..(k - 1) : ~ParseInLocation(nonISOTimeFormats[j], v, loc).ok
    ELSE 0

\* the loop over nonISOTimeFormats: the index of the first format that
\* matches, 0 if none does
FirstFormat(v, loc) ==
    IF \E k \in 1..Len(nonISOTimeFormats) : ParseInLocation(nonISOTimeFormats[k], v, loc).ok
    THEN CHOOSE k \in 1..Len(nonISOTimeFormats) :
             /\ ParseInLocation(nonISOTimeFormats[k], v, loc).ok
             /\ \A j \in 1..(k - 1) : ~ParseInLocation(nonISOTimeFormats[j], v, loc).ok
    ELSE 0

----------------------------------------------------------------------------
(* The calls that are checked *)

\* the most digits after the decimal point of an ISO input
MaxFracDigits == 9

\* the longest digit string handed to the entry points
MaxDigits == 22

\* the most distinct offsets the callers of the cache ask for
MaxOffsets == 52

FracSource == <<"1", "2", "3", "4", "5", "6", "7", "8", "9", "1", "2">>

\* a decimal point and k digits, nothing for k = 0
Frac(k) == IF k = 0 THEN <<>> ELSE <<".">> \o SubSeq(FracSource, 1, k)

GoodDateTimes == {<<"2", "0", "0", "6", "0", "1", "0", "2", "T", "1", "5", "0", "4", "0", "5">>,
                     <<"2", "0", "0", "6", "-", "0", "1", "-", "0", "2", "T", "1", "5", ":", "0", "4", ":", "0", "5">>}

Zones == {<<>>,
         <<"Z">>,
         <<"z">>,
         <<"+", "0", "1", "0", "0">>,
         <<"-", "0", "1", "0", "0">>,
         <<"+", "0", "1", ":", "0", "0">>,
         <<"-", "0", "7", ":", "0", "0">>,
         <<"-", "0", "7">>,
         <<"+", "0", "3", "3", "0">>,
         <<"-", "0", "9", "4", "5">>,
         <<"+", "0", "1", "1", "0">>,
         <<"+", "0", "1", "0">>,
         <<"+", "0">>,
         <<"+", "0", "0", "0", "0">>,
         <<"-", "0", "0", "0", "0">>,
         <<"+", "0", "0">>,
         <<"-", "0", "0">>,
         <<"+", "0", "1", "Z">>,
         <<"+", "0", "1", "3", "Z">>,
         <<"+", "0", "1", "3", "0", "Z">>,
         <<"+", "0", "Z">>,
         <<"+", "-", "0", "1", "0", "0">>,
         <<"-", "+", "0", "1", "0", "0">>,
         <<"Z", "5">>,
         <<"Z", "x">>,
         <<"z", "Z">>,
         <<"+", "0", "1", ":", "0", "0", " ">>,
         <<"+", "9", "9", "0", "0">>}

\* texts the ISO scanner is meant for, well formed and not
ISOInputs ==
    {dt \o f \o z :
        dt \in GoodDateTimes,
        f \in {Frac(k) : k \in 0..MaxFracDigits} \cup {<<".", "0", "0", "0">>},
        z \in Zones}
    \cup {d \o tm \o f \o z \o tl :
        d \in {<<"2", "0", "0", "6", "0", "1", "0", "2">>,
              <<"2", "0", "0", "6", "-", "0", "1", "-", "0", "2">>,
              <<"2", "0", "0", "6", "/", "1", "3", "/", "4", "0">>,
              <<"2", "0", "0", "6", "0", "1">>,
              <<"0", "6", "-", "0", "1", "-", "0", "2">>,
              <<>>},
        tm \in {<<>>,
               <<"T", "1", "5", "0", "4", "0", "5">>,
               <<" ", "1", "5", "-", "0", "4", "-", "0", "5">>,
               <<"t", "4", "0", ".", "6", "1", ".", "6", "1">>,
               <<"T", "1", "5", "0", "4">>},
        f \in {<<>>,
              <<".", "5">>},
        z \in {<<>>,
              <<"Z">>,
              <<"+", "0", "1", "0", "0">>,
              <<"-", "0", "7">>},
        tl \in {<<>>,
               <<"x">>,
               <<"5">>}}

DigitSource == <<"1", "1", "3", "6", "2", "1", "4", "2", "4", "5", "3", "0", "0", "0", "0", "0", "1", "2", "3", "4", "5", "6", "7", "8", "9">>

\* texts the Unix decoder is meant for, well formed and not: the first n
\* digits of DigitSource, and strings of n characters with a "." after the
\* first k digits
NumericInputs ==
    {SubSeq(DigitSource, 1, n) : n \in 1..MaxDigits}
    \cup {SubSeq(DigitSource, 1, p[2]) \o <<".">> \o SubSeq(DigitSource, p[2] + 1, p[1] - 1) :
            p \in {q \in {2, 3, 7, 8, 10, 11, 12, 14, 15, 20} \X {0, 1, 2, 6, 7, 10, 11, 13} :
                      q[2] < q[1]}}
    \cup {<<"1", ".", "2", ".", "3">>,
         <<" ", "1", "1", "3", "6", "2", "1", "4", "2", "4", "5", " ">>,
         <<"-", "1", "1", "3", "6", "2", "1", "4", "2", "4", "5">>}

\* texts of the fallback formats, texts with a digit outside ASCII, texts
\* longer than maxLength, the empty text
OtherInputs ==
    {<<>>,
    <<"1", "/", "2", "/", "2", "0", "0", "6">>,
    <<"2", "0", "0", "6", "-", "0", "1", "-", "0", "2", "U+00A0", "1", "5", ":", "0", "4", ":", "0", "5", ".", "1", "2", "3", "4", "5", "6", "7", "8", "9", "-", "0", "7", ":", "0", "0">>,
    <<"2", "0", "0", "6", "-", "0", "1", "-", "0", "2", "U+00A0", "1", "5", ":", "0", "4", ":", "0", "5", "-", "0", "7", ":", "0", "0">>,
    <<"2", "0", "0", "6", "-", "0", "1", "-", "0", "2", "T", "1", "5", ":", "0", "4", ":", "0", "5", ".", "1", "2", "3", "4", "5", "6", "7", "8", "U+0663", "+", "0", "1", ":", "0", "0">>,
    <<"M", "o", "n", ",", " ", "0", "2", " ", "J", "a", "n", " ", "2", "0", "0", "6", " ", "1", "5", ":", "0", "4", ":", "0", "5", " ", "G", "M", "T">>,
    <<"M", "o", "n", ",", " ", "0", "2", " ", "J", "a", "n", " ", "2", "0", "0", "6", " ", "1", "5", ":", "0", "4", ":", "0", "5", " ", "-", "0", "7", "0", "0">>,
    <<"M", "o", "n", ",", " ", "0", "2", " ", "J", "a", "n", " ", "2", "0", "0", "6", " ", "1", "5", ":", "0", "4", ":", "0", "5">>,
    <<"0", "2", " ", "J", "a", "n", " ", "0", "6", " ", "1", "5", ":", "0", "4", " ", "-", "0", "7", "0", "0">>,
    <<"T", "u", "e", ",", " ", "3", "1", " ", "F", "e", "b", " ", "2", "0", "0", "6", " ", "1", "5", ":", "0", "4", ":", "0", "5">>,
    <<"1", "1", "/", "1", "2", "/", "2", "0", "0", "6">>,
    <<"0", "1", "/", "0", "2", "/", "2", "0", "0", "6">>,
    <<"2", "/", "3", "0", "/", "2", "0", "0", "6">>,
    <<"2", "0", "0", "6", "-", "0", "1", "-", "0", "U+0663">>,
    <<"2", "0", "0", "6", "0", "1", "0", "2", "T", "1", "5", "0", "4", "0", "5", ".", "U+0663">>,
    <<"2", "0", "0", "6", "0", "1", "0", "2", "T", "1", "5", "0", "4", "0", "5", "+", "0", "U+0663", "0", "0">>,
    <<"2", "0", "0", "6", "-", "0", "1", "-", "0", "2", "T", "1", "5", ":", "0", "4", ":", "0", "5", ".", "1", "2", "3", "4", "5", "6", "7", "8", "9", "+", "0", "1", ":", "0", "0", " ">>,
    <<" ", " ", "2", "0", "0", "6", "-", "0", "1", "-", "0", "2", "T", "1", "5", ":", "0", "4", ":", "0", "5", ".", "1", "2", "3", "4", "5", "6", "7", "8", "9", "+", "0", "1", ":", "0", "0">>,
    <<"2", "0", "0", "6", "-", "0", "1", "-", "0", "2", "T", "1", "5", ":", "0", "4", ":", "0", "5", ".", "1", "2", "3", "4", "5", "6", "7", "8", "9", "+", "0", "1", ":", "0", "0", "x">>,
    <<"2", "0", "0", "6", "0", "1", "0", "2", "T", "0", "1", "0", "1", "Z", "0", "1", "Z">>,
    <<"2", "0", "0", "6", "0", "1", "0", "2", "1", "5", "0", "4", "0", "5">>,
    <<"2", "0", "0", "6", "0", "1", "0", "2", "1", "5", "0", "4", "0", "5", ".", "1", "2", "3">>,
    <<" ", "2", "0", "0", "6", "0", "1", "0", "2", " ">>,
    <<"2", "0", "0", "6", "w", "0", "1", "s", "0", "2", "T", "1", "8", "a", "0", "1", "b", "0", "1", "c", "0", "1", ":", "0", "0">>}

Inputs == ISOInputs \cup NumericInputs \cup OtherInputs

Locations == {UTC, MST}

\* the entry points, each with the locations it is called with
Calls ==
    {[entry |-> "ParseInUTC", location |-> UTC, isoOnly |-> FALSE],
     [entry |-> "ParseISOInUTC", location |-> UTC, isoOnly |-> TRUE],
     [entry |-> "ParseInLocation", location |-> MST, isoOnly |-> FALSE],
     [entry |-> "ParseISOInLocation", location |-> MST, isoOnly |-> TRUE],
     [entry |-> "ParseUnixTS", location |-> UTC, isoOnly |-> FALSE]}
    \cup {[entry |-> "ParseISOTimestamp", location |-> l, isoOnly |-> FALSE] : l \in Locations}

Dispatched == {"ParseInUTC", "ParseISOInUTC", "ParseInLocation", "ParseISOInLocation"}

\* the cache of init()
ColdMaps == [m \in MapIds |-> EmptyMap]

\* no caller is inside LocationFromOffset
ProcsIdle ==
    /\ calls = 0
    /\ procPc = [p \in Procs |-> "idle"]
    /\ procOffset = [p \in Procs |-> 0]
    /\ procMap = [p \in Procs |-> NoMap]
    /\ procLoc = [p \in Procs |-> NoLocation]
    /\ raced = FALSE
    /\ fatal = FALSE

NoCall == [offsetSec |-> 0, location |-> NoLocation, hit |-> FALSE,
           reset |-> FALSE, found |-> 0, made |-> FALSE]

\* no time has been formatted
RoundIdle ==
    /\ origin = ZeroTime
    /\ formatFn = ""

\* RangeOverTimes has not been called
RangeIdle ==
    /\ rangeArgs = [start |-> ZeroTime, end |-> ZeroTime]
    /\ start = ZeroTime
    /\ end = ZeroTime
    /\ rangeFn = "none"
    /\ results = <<>>

----------------------------------------------------------------------------
(* One call of an entry point *)

InitParse ==
    /\ \E c \in Calls :
        /\ entry = c.entry
        /\ location = c.location
        /\ isoOnly = c.isoOnly
    /\ input \in Inputs
    /\ pc = "entered"
    /\ timeStr = input
    /\ isTS = FALSE
    /\ attempted = <<>>
    /\ i = 1
    /\ currentSection = emptySection
    /\ offsetPositive = FALSE
    /\ parts = EmptyParts
    /\ unparsed = <<>>
    /\ zoneFound = FALSE
    /\ t = ZeroTime
    /\ err = NoErr
    /\ IF location = UTC
       THEN zoneMaps = ColdMaps /\ nextHandle = 1
       ELSE /\ zoneMaps = [ColdMaps EXCEPT ![0] =
                               MapSet(MapSet(EmptyMap, 3600, FixedZone(3600, 1)),
                                      0 - 25200, FixedZone(0 - 25200, 2))]
            /\ nextHandle = 3
    /\ locationAtomic = 0
    /\ requested = 0
    /\ lastCall = NoCall
    /\ prevCall = NoCall
    /\ ProcsIdle
    /\ RoundIdle
    /\ RangeIdle

scanVars == <<i, currentSection, offsetPositive, parts, unparsed, zoneFound>>

\* parseTimestamp up to its call of ParseISOTimestamp
parseTimestampEnter ==
    /\ pc = "entered"
    /\ entry \in Dispatched
    /\ timeStr' = TrimSpace(input)
    /\ isTS' = NumericCandidate(timeStr')
    /\ pc' = IF isTS' THEN "afterISO" ELSE "iso"
    /\ UNCHANGED <<entry, input, location, isoOnly, attempted, t, err>>
    /\ UNCHANGED <<scanVars, cacheVars, callVars, procVars, origin, formatFn, rangeVars>>

\* ParseISOTimestamp up to its range loop
ParseISOTimestampEnter ==
    /\ \/ pc = "iso"
       \/ pc = "entered" /\ entry = "ParseISOTimestamp"
    /\ attempted' = Append(attempted, "iso")
    /\ IF ByteLen(timeStr) > maxLength
       THEN /\ err' = Error("InputTooLong", timeStr, ByteLen(timeStr), "", <<>>)
            /\ t' = ZeroTime
            /\ pc' = IF entry = "ParseISOTimestamp" THEN "done" ELSE "afterISO"
       ELSE /\ pc' = IF Len(timeStr) = 0 THEN "scanned" ELSE "scan"
            /\ UNCHANGED <<t, err>>
    /\ i' = 1
    /\ currentSection' = emptySection
    /\ offsetPositive' = FALSE
    /\ parts' = EmptyParts
    /\ unparsed' = <<>>
    /\ UNCHANGED <<entry, input, location, isoOnly, timeStr, isTS, zoneFound>>
    /\ UNCHANGED <<cacheVars, callVars, procVars, origin, formatFn, rangeVars>>

\* the range loop left at the first unparsed character as well
ScanEndsAtUnparsed(r, index, text) == r.break \/ r.unparsed # <<>> \/ index = Len(text)

\* whether the range loop ends with the pass that gave r: by its break or
\* with the last rune of the text
ScanEnds(r, index, text) == r.break \/ index = Len(text)

\* one pass of the range loop of ParseISOTimestamp
Scan ==
    /\ pc = "scan"
    /\ LET r == ScanRune(currentSection, offsetPositive, parts, unparsed,
                         timeStr[i], ByteIndex(timeStr, i))
       IN  /\ currentSection' = r.section
           /\ offsetPositive' = r.positive
           /\ parts' = r.parts
           /\ unparsed' = r.unparsed
           /\ pc' = IF ScanEnds(r, i, timeStr) THEN "scanned" ELSE "scan"
    /\ i' = i + 1
    /\ UNCHANGED <<entry, input, location, isoOnly, timeStr, isTS, attempted,
                   zoneFound, t, err>>
    /\ UNCHANGED <<cacheVars, callVars, procVars, origin, formatFn, rangeVars>>

\* what a LocationFromOffset call is remembered by
CallOf(offsetSec, r, found) ==
    [offsetSec |-> offsetSec, location |-> r.location, hit |-> r.hit,
     reset |-> r.reset, found |-> found, made |-> TRUE]

\* ParseISOTimestamp from the end of its range loop to its return
ParseISOTimestampFinish ==
    /\ pc = "scanned"
    /\ LET a == AfterScan(timeStr, location, parts, unparsed, offsetPositive)
           r == LocationFromOffset(zoneMaps, locationAtomic, nextHandle, {}, a.offsetSec)
       IN  /\ parts' = a.parts
           /\ zoneFound' = a.zoneFound
           /\ err' = a.err
           /\ IF a.lookup
              THEN /\ t' = [a.t EXCEPT !.loc = r.location]
                   /\ zoneMaps' = r.zoneMaps
                   /\ locationAtomic' = r.locationAtomic
                   /\ nextHandle' = r.nextHandle
                   /\ lastCall' = CallOf(a.offsetSec, r, Cardinality(DOMAIN Cache))
                   /\ prevCall' = lastCall
              ELSE /\ t' = a.t
                   /\ UNCHANGED <<cacheVars, lastCall, prevCall>>
    /\ pc' = IF entry = "ParseISOTimestamp" THEN "done" ELSE "afterISO"
    /\ UNCHANGED <<entry, input, location, isoOnly, timeStr, isTS, attempted,
                   i, currentSection, offsetPositive, unparsed, requested>>
    /\ UNCHANGED <<procVars, origin, formatFn, rangeVars>>

\* What parseTimestamp does after its ISO attempt, if it made one: return the
\* ISO result, fail as ISO only, call the Unix decoder, or loop over the
\* fallback formats.
StrategyISOOnlyLast(numeric, only, isoErr) ==
    IF ~numeric /\ isoErr = NoErr THEN "return"
    ELSE IF numeric THEN "unix"
    ELSE IF only THEN "isoFailure"
    ELSE "fallback"

Strategy(numeric, only, isoErr) ==
    IF ~numeric /\ isoErr = NoErr THEN "return"
    ELSE IF only THEN "isoFailure"
    ELSE IF numeric THEN "unix"
    ELSE "fallback"

\* parseTimestamp from the return of ParseISOTimestamp to its own return
parseTimestampFinish ==
    /\ pc = "afterISO"
    /\ LET s == Strategy(isTS, isoOnly, err)
           u == ParseUnixTS(timeStr)
           k == FirstFormat(timeStr, location)
       IN  CASE s = "return" ->
                    /\ pc' = "done"
                    /\ UNCHANGED <<t, err, attempted>>
             [] s = "isoFailure" ->
                    /\ pc' = "done"
                    /\ err' = Error("ISOParseFailure", timeStr, 0, "", <<>>)
                    /\ UNCHANGED <<t, attempted>>
             [] s = "unix" ->
                    /\ attempted' = Append(attempted, "unix")
                    /\ pc' = IF u.panic THEN "panic" ELSE "done"
                    /\ IF u.panic THEN UNCHANGED <<t, err>>
                       ELSE IF u.err # NoErr
                       THEN /\ t' = u.t
                            /\ err' = Error("UnixParseFailure", timeStr, 0, "", <<>>)
                       ELSE /\ t' = In(u.t, location)
                            /\ err' = NoErr
             [] s = "fallback" ->
                    /\ attempted' = attempted \o [j \in 1..(IF k = 0 THEN Len(nonISOTimeFormats) ELSE k) |-> "fallback"]
                    /\ pc' = "done"
                    /\ IF k = 0
                       THEN /\ t' = ZeroTime
                            /\ err' = Error("NoFallbackFormatMatched", timeStr, 0, "", <<>>)
                       ELSE /\ t' = ParseInLocation(nonISOTimeFormats[k], timeStr, location).t
                            /\ err' = NoErr
    /\ UNCHANGED <<entry, input, location, isoOnly, timeStr, isTS>>
    /\ UNCHANGED <<scanVars, cacheVars, callVars, procVars, origin, formatFn, rangeVars>>

\* a direct call of ParseUnixTS
ParseUnixTSCall ==
    /\ pc = "entered"
    /\ entry = "ParseUnixTS"
    /\ LET u == ParseUnixTS(timeStr)
       IN  /\ pc' = IF u.panic THEN "panic" ELSE "done"
           /\ t' = u.t
           /\ err' = u.err
    /\ attempted' = Append(attempted, "unix")
    /\ UNCHANGED <<entry, input, location, isoOnly, timeStr, isTS>>
    /\ UNCHANGED <<scanVars, cacheVars, callVars, procVars, origin, formatFn, rangeVars>>

NextParse ==
    \/ parseTimestampEnter
    \/ ParseISOTimestampEnter
    \/ Scan
    \/ ParseISOTimestampFinish
    \/ parseTimestampFinish
    \/ ParseUnixTSCall

SpecParse == InitParse /\ [][NextParse]_vars

----------------------------------------------------------------------------
(* Calls of LocationFromOffset and ZoneFromHM, one after the other *)

\* the most LocationFromOffset calls the concurrent callers begin
MaxCalls == 4

\* the k-th distinct offset the callers ask for
OffsetOf(k) == 900 * k

\* The offsets a caller asks for: one never asked for before, the first one
\* asked for, the last one asked for.
Asked ==
    (IF requested < MaxOffsets THEN {OffsetOf(requested)} ELSE {})
    \cup (IF requested > 0 THEN {OffsetOf(0), OffsetOf(requested - 1)} ELSE {})

Request(offsetSec) ==
    requested' = IF offsetSec = OffsetOf(requested) THEN requested + 1 ELSE requested

\* the program with nothing parsed and no caller inside a function
NoParse ==
    /\ entry = "" /\ input = <<>> /\ location = UTC /\ isoOnly = FALSE
    /\ pc = "idle" /\ timeStr = <<>> /\ isTS = FALSE /\ attempted = <<>>
    /\ i = 1 /\ currentSection = emptySection /\ offsetPositive = FALSE
    /\ parts = EmptyParts /\ unparsed = <<>> /\ zoneFound = FALSE
    /\ t = ZeroTime /\ err = NoErr

InitCache ==
    /\ NoParse
    /\ zoneMaps = ColdMaps
    /\ locationAtomic = 0
    /\ nextHandle = 1
    /\ requested = 0
    /\ lastCall = NoCall
    /\ prevCall = NoCall
    /\ ProcsIdle
    /\ RoundIdle
    /\ RangeIdle

Lookup(offsetSec) ==
    LET r == LocationFromOffset(zoneMaps, locationAtomic, nextHandle, {}, offsetSec)
    IN  /\ zoneMaps' = r.zoneMaps
        /\ locationAtomic' = r.locationAtomic
        /\ nextHandle' = r.nextHandle
        /\ lastCall' = CallOf(offsetSec, r, Cardinality(DOMAIN Cache))
        /\ prevCall' = lastCall
        /\ Request(offsetSec)

\* a call of LocationFromOffset
LocationFromOffsetCall ==
    /\ pc = "idle"
    /\ \E offsetSec \in Asked : Lookup(offsetSec)
    /\ UNCHANGED <<parseVars, origin, formatFn, rangeVars, procVars>>

\* a call of ZoneFromHM
ZoneFromHMCall ==
    /\ pc = "idle"
    /\ \E offsetH \in 0..(MaxOffsets \div 4), offsetM \in {0 - 45, 0 - 30, 0 - 15, 0, 15, 30, 45} :
        /\ ZoneFromHMOffset(offsetH, offsetM) \in Asked
        /\ Lookup(ZoneFromHMOffset(offsetH, offsetM))
    /\ UNCHANGED <<parseVars, origin, formatFn, rangeVars, procVars>>

NextCache == LocationFromOffsetCall \/ ZoneFromHMCall

SpecCache == InitCache /\ [][NextCache]_vars

----------------------------------------------------------------------------
(* Concurrent calls of LocationFromOffset *)

InitConc ==
    /\ NoParse
    /\ \E n \in {0, MaxCachedZones, MaxCachedZones + 1} :
        /\ zoneMaps = [ColdMaps EXCEPT ![0] =
                        [o \in {OffsetOf(k) : k \in 0..(n - 1)} |-> FixedZone(o, o \div 900 + 1)]]
        /\ nextHandle = n + 1
        /\ requested = n
    /\ locationAtomic = 0
    /\ lastCall = NoCall
    /\ prevCall = NoCall
    /\ ProcsIdle
    /\ RoundIdle
    /\ RangeIdle

\* the map objects that are reachable: the published one and the callers'
Refs(pm) == ({locationAtomic} \cup {pm[p] : p \in Procs}) \ {NoMap}

\* the callers that are between the start and the end of a write into map m
Writers(m) == {p \in Procs : procPc[p] = "writing" /\ procMap[p] = m}

\* a caller enters LocationFromOffset
Enter(p) ==
    /\ ~fatal
    /\ procPc[p] = "idle"
    /\ calls < MaxCalls
    /\ calls' = calls + 1
    /\ \E offsetSec \in Asked :
        /\ procOffset' = [procOffset EXCEPT ![p] = offsetSec]
        /\ Request(offsetSec)
    /\ procPc' = [procPc EXCEPT ![p] = "load"]
    /\ UNCHANGED <<parseVars, origin, formatFn, rangeVars, cacheVars, lastCall, prevCall, procMap, procLoc, raced, fatal>>

\* cachedZones := locationAtomic.Load()
Load(p) ==
    /\ ~fatal
    /\ procPc[p] = "load"
    /\ procMap' = [procMap EXCEPT ![p] = locationAtomic]
    /\ procPc' = [procPc EXCEPT ![p] = "lookup"]
    /\ UNCHANGED <<parseVars, origin, formatFn, rangeVars, cacheVars, callVars, calls, procOffset, procLoc, raced, fatal>>

\* What a read of map m finds. With a write of another caller under way the
\* read is a data race: it finds the map as it was, or with the entry being
\* written, or the runtime stops the program.
Views(p, m) ==
    {zoneMaps[m]} \cup
    {MapSet(zoneMaps[m], procOffset[w], procLoc[w]) : w \in Writers(m) \ {p}}

\* l, ok := cachedZones[offsetSec]
Find(p) ==
    /\ ~fatal
    /\ procPc[p] = "lookup"
    /\ raced' = (raced \/ Writers(procMap[p]) # {})
    /\ \/ /\ Writers(procMap[p]) # {}
          /\ fatal' = TRUE
          /\ UNCHANGED <<procPc, procLoc>>
       \/ /\ UNCHANGED fatal
          /\ \E view \in Views(p, procMap[p]) :
              IF procOffset[p] \in DOMAIN view
              THEN /\ procLoc' = [procLoc EXCEPT ![p] = view[procOffset[p]]]
                   /\ procPc' = [procPc EXCEPT ![p] = "hit"]
              ELSE /\ procPc' = [procPc EXCEPT ![p] = "miss"]
                   /\ UNCHANGED procLoc
    /\ UNCHANGED <<parseVars, origin, formatFn, rangeVars, cacheVars, callVars, calls, procOffset, procMap>>

\* leave LocationFromOffset
Return(p, hit, reset, found) ==
    /\ procPc' = [procPc EXCEPT ![p] = "idle"]
    /\ procMap' = [procMap EXCEPT ![p] = NoMap]
    /\ lastCall' = [offsetSec |-> procOffset[p], location |-> procLoc[p], hit |-> hit,
                    reset |-> reset, found |-> found, made |-> TRUE]
    /\ prevCall' = lastCall

\* if len(cachedZones) > 50, on a hit
CheckLen(p) ==
    /\ ~fatal
    /\ procPc[p] = "hit"
    /\ raced' = (raced \/ Writers(procMap[p]) # {})
    /\ \/ /\ Writers(procMap[p]) # {}
          /\ fatal' = TRUE
          /\ UNCHANGED <<procPc, procMap, lastCall, prevCall, zoneMaps>>
       \/ /\ UNCHANGED fatal
          /\ \E view \in Views(p, procMap[p]) :
              IF Cardinality(DOMAIN view) > MaxCachedZones
              THEN /\ procPc' = [procPc EXCEPT ![p] = "reset"]
                   /\ UNCHANGED <<procMap, lastCall, prevCall, zoneMaps>>
              ELSE /\ Return(p, TRUE, FALSE, Cardinality(DOMAIN view))
                   /\ zoneMaps' = Collect(zoneMaps, Refs(procMap'))
    /\ UNCHANGED <<parseVars, origin, formatFn, rangeVars, locationAtomic, nextHandle, requested, calls,
                   procOffset, procLoc>>

\* locationAtomic.Store(make(map[int]*time.Location)), on a hit
Reset(p) ==
    /\ ~fatal
    /\ procPc[p] = "reset"
    /\ LET new == FreeMapId(Refs(procMap))
       IN  /\ locationAtomic' = new
           /\ Return(p, TRUE, TRUE, Cardinality(DOMAIN zoneMaps[procMap[p]]))
           /\ zoneMaps' = Collect([zoneMaps EXCEPT ![new] = EmptyMap],
                                  ({new} \cup {procMap'[q] : q \in Procs}) \ {NoMap})
    /\ UNCHANGED <<parseVars, origin, formatFn, rangeVars, nextHandle, requested, calls, procOffset, procLoc,
                   raced, fatal>>

\* location = time.FixedZone(...) and the start of cachedZones[offsetSec] = location
WriteBegin(p) ==
    /\ ~fatal
    /\ procPc[p] = "miss"
    /\ procLoc' = [procLoc EXCEPT ![p] = FixedZone(procOffset[p], nextHandle)]
    /\ nextHandle' = nextHandle + 1
    /\ raced' = (raced \/ Writers(procMap[p]) # {})
    /\ \/ /\ Writers(procMap[p]) # {}
          /\ fatal' = TRUE
          /\ UNCHANGED procPc
       \/ /\ UNCHANGED fatal
          /\ procPc' = [procPc EXCEPT ![p] = "writing"]
    /\ UNCHANGED <<parseVars, origin, formatFn, rangeVars, zoneMaps, locationAtomic, callVars, calls,
                   procOffset, procMap>>

\* the end of cachedZones[offsetSec] = location
WriteEnd(p) ==
    /\ ~fatal
    /\ procPc[p] = "writing"
    /\ zoneMaps' = [zoneMaps EXCEPT ![procMap[p]] = MapSet(@, procOffset[p], procLoc[p])]
    /\ procPc' = [procPc EXCEPT ![p] = "publish"]
    /\ UNCHANGED <<parseVars, origin, formatFn, rangeVars, locationAtomic, nextHandle, callVars, calls,
                   procOffset, procMap, procLoc, raced, fatal>>

\* locationAtomic.Store(cachedZones), on a miss
Publish(p) ==
    /\ ~fatal
    /\ procPc[p] = "publish"
    /\ locationAtomic' = procMap[p]
    /\ Return(p, FALSE, FALSE, Cardinality(DOMAIN zoneMaps[procMap[p]]) - 1)
    /\ zoneMaps' = Collect(zoneMaps, ({locationAtomic'} \cup {procMap'[q] : q \in Procs}) \ {NoMap})
    /\ UNCHANGED <<parseVars, origin, formatFn, rangeVars, nextHandle, requested, calls, procOffset, procLoc,
                   raced, fatal>>

NextConc ==
    \E p \in Procs :
        \/ Enter(p)
        \/ Load(p)
        \/ Find(p)
        \/ CheckLen(p)
        \/ Reset(p)
        \/ WriteBegin(p)
        \/ WriteEnd(p)
        \/ Publish(p)

SpecConc == InitConc /\ [][NextConc]_vars

----------------------------------------------------------------------------
(* The calendar of package time *)

\* the days from 1970-01-01 to the day d of the month m (1..12) of the year y;
\* d may lie outside the month
DaysFromCivil(y, m, d) ==
    LET yy == IF m <= 2 THEN y - 1 ELSE y
        era == yy \div 400
        yoe == yy - era * 400
        mp == IF m > 2 THEN m - 3 ELSE m + 9
        doy == (153 * mp + 2) \div 5 + d - 1
        doe == yoe * 365 + yoe \div 4 - yoe \div 100 + doy
    IN  era * 146097 + doe - 719468

\* the year, month and day of the day z days after 1970-01-01
CivilFromDays(z) ==
    LET zz == z + 719468
        era == zz \div 146097
        doe == zz - era * 146097
        yoe == (doe - doe \div 1460 + doe \div 36524 - doe \div 146096) \div 365
        doy == doe - (365 * yoe + yoe \div 4 - yoe \div 100)
        mp == (5 * doy + 2) \div 153
        d == doy - (153 * mp + 2) \div 5 + 1
        m == IF mp < 10 THEN mp + 3 ELSE mp - 9
    IN  [year |-> yoe + era * 400 + (IF m <= 2 THEN 1 ELSE 0), month |-> m, day |-> d]

\* a clock reading: a day, the second of the day and the nanosecond
Reading(days, sod, nsec) == [days |-> days, sod |-> sod, nsec |-> nsec]

\* a reading moved by a number of seconds
Shift(c, secs) ==
    Reading(c.days + (c.sod + secs) \div 86400, (c.sod + secs) % 86400, c.nsec)

\* whether reading a is before reading b
Before(a, b) ==
    \/ a.days < b.days
    \/ a.days = b.days /\ a.sod < b.sod
    \/ a.days = b.days /\ a.sod = b.sod /\ a.nsec < b.nsec

\* a location with daylight saving time: five hours behind UTC, four from
\* 2006-04-02 02:00 to 2006-10-29 02:00 on its own clock
NewYork == [name |-> "America/New_York", offset |-> 0 - 18000, id |-> 0 - 5]

\* What the clock of a time's location shows: time.Date rolls a month outside
\* 1..12 into the year and days, hours, minutes and seconds outside their
\* range into the next field; time.Unix counts seconds from 1970-01-01 UTC.
Clock(tm) ==
    IF tm.kind = "unix"
    THEN Shift(Reading(tm.unix \div 86400, tm.unix % 86400, tm.nsec),
               tm.loc.offset)
    ELSE LET y == tm.year + (tm.month - 1) \div 12
             m == ((tm.month - 1) % 12) + 1
             secs == tm.hour * 3600 + tm.min * 60 + tm.sec
         IN  Shift(Reading(DaysFromCivil(y, m, 1) + tm.day - 1, 0, tm.nsec), secs)

\* t.Zone(): the offset in effect at the time, the daylight offset of
\* NewYork when its clock shows a reading in the daylight period
Zone(tm) ==
    IF /\ tm.loc = NewYork
       /\ ~Before(Clock(tm), Reading(DaysFromCivil(2006, 4, 2), 7200, 0))
       /\ Before(Clock(tm), Reading(DaysFromCivil(2006, 10, 29), 7200, 0))
    THEN 0 - 14400
    ELSE tm.loc.offset

\* the instant of a time: what the clock of UTC shows
Instant(tm) == Shift(Clock(tm), 0 - Zone(tm))

\* t.After(u)
After(tm, u) == Before(Instant(u), Instant(tm))

----------------------------------------------------------------------------
(* The format functions *)

\* appendInt: the decimal form of x, its digits padded with zeros to width
RECURSIVE appendInt(_, _)
appendInt(x, width) ==
    IF x < 0 THEN <<"-">> \o appendInt(0 - x, width)
    ELSE IF x < 10 /\ width <= 1 THEN <<CHOOSE c \in AsciiDigits : DigitVal(c) = x>>
    ELSE Append(appendInt(x \div 10, width - 1),
                CHOOSE c \in AsciiDigits : DigitVal(c) = x % 10)

\* the layout chunk "-0700", or "-07:00" with a colon
FormatZone(offsetSec, colon) ==
    LET zone == (IF offsetSec < 0 THEN 0 - offsetSec ELSE offsetSec) \div 60
    IN  <<IF offsetSec < 0 THEN "-" ELSE "+">>
        \o appendInt(zone \div 60, 2)
        \o (IF colon THEN <<":">> ELSE <<>>)
        \o appendInt(zone % 60, 2)

\* the layout chunks "2006", "01", "02" with sep between them
FormatDate(c, sep) ==
    LET d == CivilFromDays(c.days)
    IN  appendInt(d.year, 4) \o sep \o appendInt(d.month, 2) \o sep \o appendInt(d.day, 2)

\* the layout chunks "15", "04", "05" with sep between them
FormatClock(c, sep) ==
    appendInt(c.sod \div 3600, 2) \o sep \o appendInt((c.sod % 3600) \div 60, 2)
        \o sep \o appendInt(c.sod % 60, 2)

\* t.Format("20060102T150405-0700")
ISO8601Compact(tm) ==
    FormatDate(Clock(tm), <<>>) \o <<"T">> \o FormatClock(Clock(tm), <<>>)
        \o FormatZone(Zone(tm), FALSE)

\* t.Format("20060102T150405.000-0700"): the milliseconds cut, not rounded
ISO8601CompactMsec(tm) ==
    FormatDate(Clock(tm), <<>>) \o <<"T">> \o FormatClock(Clock(tm), <<>>)
        \o <<".">> \o appendInt(Clock(tm).nsec \div 1000000, 3)
        \o FormatZone(Zone(tm), FALSE)

\* t.Format("2006-01-02T15:04:05-07:00")
ISO8601(tm) ==
    FormatDate(Clock(tm), <<"-">>) \o <<"T">> \o FormatClock(Clock(tm), <<":">>)
        \o FormatZone(Zone(tm), TRUE)

\* t.Format("2006-01-02T15:04:05.000-07:00")
ISO8601Msec(tm) ==
    FormatDate(Clock(tm), <<"-">>) \o <<"T">> \o FormatClock(Clock(tm), <<":">>)
        \o <<".">> \o appendInt(Clock(tm).nsec \div 1000000, 3)
        \o FormatZone(Zone(tm), TRUE)

\* t.In(time.UTC).Format("Mon, 02 Jan 2006 15:04:05 GMT")
RFC7232(tm) ==
    LET c == Instant(tm)
        d == CivilFromDays(c.days)
    IN  shortDayNames[((c.days + 4) % 7) + 1] \o <<",", " ">>
        \o appendInt(d.day, 2) \o <<" ">> \o shortMonthNames[d.month] \o <<" ">>
        \o appendInt(d.year, 4) \o <<" ">> \o FormatClock(c, <<":">>)
        \o <<" ", "G", "M", "T">>

\* the text a format function gives for a time
Format(fn, tm) ==
    CASE fn = "ISO8601Compact" -> ISO8601Compact(tm)
      [] fn = "ISO8601CompactMsec" -> ISO8601CompactMsec(tm)
      [] fn = "ISO8601" -> ISO8601(tm)
      [] fn = "ISO8601Msec" -> ISO8601Msec(tm)
      [] fn = "RFC7232" -> RFC7232(tm)

----------------------------------------------------------------------------
(* A parse, a format function on its result, and a parse of that text *)

\* a call of ParseInUTC or ParseInLocation with a text of each strategy that
\* parses
InitRound ==
    /\ \E c \in {k \in Calls : k.entry \in {"ParseInUTC", "ParseInLocation"}} :
        /\ entry = c.entry
        /\ location = c.location
        /\ isoOnly = c.isoOnly
    /\ input \in
            {dt \o f \o z :
                dt \in {<<"2", "0", "0", "6", "0", "1", "0", "2", "T", "1", "5", "0", "4", "0", "5">>,
                       <<"2", "0", "0", "6", "-", "0", "1", "-", "0", "2", "T", "1", "5", ":", "0", "4", ":", "0", "5">>,
                       <<"2", "0", "0", "6", "-", "1", "2", "-", "3", "1", " ", "2", "3", ":", "5", "9", ":", "5", "9">>,
                       <<"2", "0", "0", "6", "-", "0", "2", "-", "3", "0", "T", "2", "4", ":", "0", "0", ":", "6", "0">>,
                       <<"0", "0", "0", "1", "-", "0", "1", "-", "0", "1", "T", "0", "0", ":", "0", "0", ":", "0", "0">>,
                       <<"9", "9", "9", "9", "-", "1", "2", "-", "3", "1", "T", "2", "3", ":", "5", "9", ":", "5", "9">>},
                f \in {<<>>,
                      <<".", "5">>,
                      <<".", "1", "2", "3", "9">>,
                      <<".", "1", "2", "3", "4", "5", "6", "7", "8", "9">>},
                z \in {<<>>,
                      <<"Z">>,
                      <<"+", "0", "1", "0", "0">>,
                      <<"-", "0", "7", ":", "0", "0">>,
                      <<"+", "0", "5", ":", "3", "0">>,
                      <<"+", "9", "9", "0", "0">>}}
            \cup {<<"2", "0", "0", "6", "0", "1", "0", "2">>,
                  <<"1", "1", "3", "6", "2", "1", "4", "2", "4", "5">>,
                  <<"2", "0", "0", "6", "0", "1", "0", "2", ".", "5">>,
                  <<"M", "o", "n", ",", " ", "0", "2", " ", "J", "a", "n", " ", "2", "0", "0", "6", " ", "1", "5", ":", "0", "4", ":", "0", "5", " ", "G", "M", "T">>,
                  <<"M", "o", "n", ",", " ", "0", "2", " ", "J", "a", "n", " ", "2", "0", "0", "6", " ", "1", "5", ":", "0", "4", ":", "0", "5", " ", "-", "0", "7", "0", "0">>,
                  <<"0", "2", " ", "J", "a", "n", " ", "0", "6", " ", "1", "5", ":", "0", "4", " ", "-", "0", "7", "0", "0">>}
    /\ pc = "entered"
    /\ timeStr = input
    /\ isTS = FALSE
    /\ attempted = <<>>
    /\ i = 1
    /\ currentSection = emptySection
    /\ offsetPositive = FALSE
    /\ parts = EmptyParts
    /\ unparsed = <<>>
    /\ zoneFound = FALSE
    /\ t = ZeroTime
    /\ err = NoErr
    /\ zoneMaps = ColdMaps
    /\ nextHandle = 1
    /\ locationAtomic = 0
    /\ requested = 0
    /\ lastCall = NoCall
    /\ prevCall = NoCall
    /\ ProcsIdle
    /\ RoundIdle
    /\ RangeIdle

\* the caller formats the time a parse returned and calls ParseInLocation
\* with the text
Reformat ==
    /\ pc = "done"
    /\ err = NoErr
    /\ formatFn = ""
    /\ \E fn \in {"ISO8601Compact", "ISO8601CompactMsec", "ISO8601", "ISO8601Msec", "RFC7232"},
          loc \in Locations :
        /\ formatFn' = fn
        /\ input' = Format(fn, t)
        /\ location' = loc
    /\ origin' = t
    /\ entry' = "ParseInLocation"
    /\ isoOnly' = FALSE
    /\ pc' = "entered"
    /\ timeStr' = input'
    /\ isTS' = FALSE
    /\ attempted' = <<>>
    /\ i' = 1
    /\ currentSection' = emptySection
    /\ offsetPositive' = FALSE
    /\ parts' = EmptyParts
    /\ unparsed' = <<>>
    /\ zoneFound' = FALSE
    /\ t' = ZeroTime
    /\ UNCHANGED <<err, cacheVars, callVars, procVars, rangeVars>>

NextRound ==
    \/ parseTimestampEnter
    \/ ParseISOTimestampEnter
    \/ Scan
    \/ ParseISOTimestampFinish
    \/ parseTimestampFinish
    \/ Reformat

SpecRound == InitRound /\ [][NextRound]_vars

----------------------------------------------------------------------------
(* RangeOverTimes and the function it returns *)

\* the most calls of the returned function
MaxRangeCalls == 8

\* t.AddDate(years, months, days)
AddDate(tm, years, months, days) ==
    LET c == Clock(tm)
        d == CivilFromDays(c.days)
    IN  Date(d.year + years, d.month + months, d.day + days,
             c.sod \div 3600, (c.sod % 3600) \div 60, c.sod % 60, c.nsec, tm.loc)

\* time.Date(y, m, d, 0, 0, 0, 0, t.Location()) with y, m, d := t.Date()
Midnight(tm) ==
    LET d == CivilFromDays(Clock(tm).days)
    IN  Date(d.year, d.month, d.day, 0, 0, 0, 0, tm.loc)

\* times the function is called with: in UTC, in fixed zones as
\* LocationFromOffset makes them, and in a location with daylight saving time
RangeTimes ==
    {Date(2006, 12, 30, 10, 0, 0, 0, UTC),
     Date(2007, 1, 2, 0, 0, 0, 0, UTC),
     Date(2006, 12, 31, 23, 59, 59, 0, FixedZone(0, 3)),
     Date(2007, 1, 1, 3, 0, 0, 0, MST),
     Date(2006, 3, 31, 12, 0, 0, 0, NewYork),
     Date(2006, 4, 2, 12, 0, 0, 0, NewYork),
     Date(2006, 4, 4, 8, 0, 0, 0, NewYork),
     Date(2006, 10, 27, 9, 0, 0, 0, NewYork),
     Date(2006, 10, 29, 12, 0, 0, 0, NewYork),
     Date(2006, 10, 27, 10, 0, 0, 0, FixedZone(0 - 18000, 1)),
     Date(2006, 3, 30, 23, 30, 0, 0, FixedZone(0 - 18000, 1)),
     Date(2006, 4, 3, 5, 0, 0, 0, FixedZone(0 - 18000, 1)),
     Date(2006, 3, 31, 1, 0, 0, 0, FixedZone(0 - 14400, 2)),
     Date(2006, 4, 2, 20, 0, 0, 0, FixedZone(0 - 14400, 2))}

InitRange ==
    /\ NoParse
    /\ zoneMaps = ColdMaps
    /\ locationAtomic = 0
    /\ nextHandle = 1
    /\ requested = 0
    /\ lastCall = NoCall
    /\ prevCall = NoCall
    /\ ProcsIdle
    /\ RoundIdle
    /\ start \in RangeTimes
    /\ end \in RangeTimes
    /\ rangeArgs = [start |-> start, end |-> end]
    /\ rangeFn = "none"
    /\ results = <<>>

\* the test on the locations of the two times
ZonesDifferByLocation(s, e) == s.loc # e.loc

\* startZone != endZone, each the offset that Zone() returns
ZonesDiffer(s, e) == Zone(s) # Zone(e)

\* the call of RangeOverTimes
RangeOverTimes ==
    /\ rangeFn = "none"
    /\ IF ZonesDiffer(start, end)
       THEN /\ rangeFn' = "differ"
            /\ UNCHANGED <<start, end>>
       ELSE /\ rangeFn' = "iterate"
            /\ start' = Midnight(start)
            /\ end' = Midnight(end)
    /\ UNCHANGED <<rangeArgs, results>>
    /\ UNCHANGED <<parseVars, cacheVars, callVars, procVars, origin, formatFn>>

\* a call of the function returned when the zones differ
RangeDiffer ==
    /\ rangeFn = "differ"
    /\ Len(results) < MaxRangeCalls
    /\ results' = Append(results, [time |-> ZeroTime,
                                   err |-> Error("ZonesDiffer", <<>>, 0, "", <<>>)])
    /\ UNCHANGED <<rangeArgs, start, end, rangeFn>>
    /\ UNCHANGED <<parseVars, cacheVars, callVars, procVars, origin, formatFn>>

\* a call of the function returned otherwise
RangeNext ==
    /\ rangeFn = "iterate"
    /\ Len(results) < MaxRangeCalls
    /\ IF After(start, end)
       THEN /\ results' = Append(results, [time |-> ZeroTime, err |-> NoErr])
            /\ UNCHANGED start
       ELSE /\ results' = Append(results, [time |-> start, err |-> NoErr])
            /\ start' = AddDate(start, 0, 0, 1)
    /\ UNCHANGED <<rangeArgs, end, rangeFn>>
    /\ UNCHANGED <<parseVars, cacheVars, callVars, procVars, origin, formatFn>>

NextRange == RangeOverTimes \/ RangeDiffer \/ RangeNext

SpecRange == InitRange /\ [][NextRange]_vars

----------------------------------------------------------------------------
(* Properties *)

Returned == pc = "done"
Succeeded == pc = "done" /\ err = NoErr

\* the call went through ParseISOTimestamp and its result is the call's result
ISOSucceeded == Succeeded /\ attempted = <<"iso">>

\* digits, optionally followed by "." and digits
DigitsDotDigits(s) ==
    \/ Len(s) > 0 /\ AllAsciiDigits(s)
    \/ \E k \in 2..(Len(s) - 1) :
        /\ s[k] = "."
        /\ AllAsciiDigits(SubSeq(s, 1, k - 1))
        /\ AllAsciiDigits(SubSeq(s, k + 1, Len(s)))

\* the number of digits among the first k characters of s
DigitsUpTo(s, k) == Cardinality({j \in 1..k : IsDigit(s[j])})

\* the signs that stand after the digits of the date and the time of day
ZoneSigns(s) ==
    {s[k] : k \in {j \in 1..Len(s) : s[j] \in {"+", "-"} /\ DigitsUpTo(s, j) >= 14}}

\* C1: every call of an entry point ends with a result or with an error
\* value, never with a panic.
C1_NoPanic == pc # "panic"

\* C2: a successful ISO parse with an explicit non-zero zone has a positive
\* offset when the zone sign of the text is "+", a negative offset when it is
\* "-", and a negative offset only if the text has a "-" as zone sign.
C2_ZoneSign ==
    (ISOSucceeded /\ zoneFound /\ ~isZero(parts.zone)) =>
        /\ ZoneSigns(timeStr) = {"+"} => t.loc.offset > 0
        /\ ZoneSigns(timeStr) = {"-"} => t.loc.offset < 0
        /\ t.loc.offset < 0 => "-" \in ZoneSigns(timeStr)

\* the rune the last pass of the range loop read
LastRune == timeStr[i - 1]

\* a pass of the range loop has just read a "Z" or a "z"
ZuluRead ==
    /\ pc \in {"scan", "scanned"}
    /\ i > 1
    /\ LastRune \in {"Z", "z"}

\* the last rune read is the last entry of the unparsed list
LastFlagged ==
    /\ unparsed # <<>>
    /\ unparsed[Len(unparsed)] = Unparsed(LastRune, ByteIndex(timeStr, i - 1))

\* the scan of the call that returned ended on a "Z" or "z" that it accepted
ZuluAccepted ==
    /\ attempted = <<"iso">>
    /\ i > 1 /\ i <= Len(timeStr) + 1
    /\ LastRune \in {"Z", "z"}
    /\ ~LastFlagged

\* C3: a "Z" or "z" read in the Subsecond or Zone section makes the zone
\* buffer exactly "0000" and ends the scan at once (the section is the one
\* it was read in: no "Z" changes it), and the result is in UTC; read in any
\* other section it is recorded as unparsed.
C3_Zulu ==
    /\ ZuluRead =>
        IF currentSection \in {subsecondSection, zoneSection}
        THEN /\ parts.zone = <<"0", "0", "0", "0">>
             /\ pc = "scanned"
             /\ ~LastFlagged
        ELSE LastFlagged
    /\ (Succeeded /\ ZuluAccepted) => (t.loc = UTC /\ t.loc.offset = 0)

\* C4: each of the eight buffers holds at most its declared capacity, at
\* every step of a scan and after it.
C4_Capacity == \A p \in PartNames : Len(parts[p]) <= PartMax(p)

\* C5: no caller reads a cache map while another caller is writing into the
\* same map object.
C5_NoReadDuringWrite == ~raced

\* C6: the published cache holds at most 50 entries.
C6_AtMost50 == Cardinality(DOMAIN Cache) <= MaxCachedZones

\* C7: the growth of the cache is bounded whatever offsets are asked for:
\* once more distinct offsets were asked for than the 50 allowed and the one
\* that breaches, a reset has happened, so the cache holds fewer entries than
\* distinct offsets were asked for.
C7_BoundedGrowth ==
    requested > MaxCachedZones + 1 => Cardinality(DOMAIN Cache) < requested

\* C8: LocationFromOffset(o) returns a fixed zone of exactly o seconds, and
\* a lookup of o right after a lookup of o that did not reset the cache is a
\* hit that returns the identical handle.
C8_SameHandle ==
    /\ lastCall.made =>
        /\ lastCall.location.offset = lastCall.offsetSec
        /\ lastCall.location.name = "FixedZone"
    /\ (lastCall.made /\ prevCall.made /\ prevCall.offsetSec = lastCall.offsetSec
        /\ ~prevCall.reset) =>
        /\ lastCall.hit
        /\ lastCall.location = prevCall.location

\* two lookups of one offset, the first a miss that made the handle
C8_Witness ==
    /\ lastCall.made /\ prevCall.made
    /\ prevCall.offsetSec = lastCall.offsetSec
    /\ ~prevCall.hit /\ lastCall.hit
    /\ lastCall.location.id > 1

\* C9: a text of digits, or digits "." digits, whose length is neither 8 nor
\* 14 goes to the Unix decoder and never to the ISO scanner, in ParseInUTC
\* and ParseInLocation.
C9_NumericToUnix ==
    (/\ entry \in {"ParseInUTC", "ParseInLocation"}
     /\ DigitsDotDigits(TrimSpace(input))
     /\ Len(TrimSpace(input)) \notin {8, 14}) =>
        /\ "iso" \notin {attempted[k] : k \in 1..Len(attempted)}
        /\ pc \in {"done", "panic"} => attempted = <<"unix">>

\* C10: a text of 8 or of 14 digits goes to the ISO scanner first, the scan
\* succeeds, the Unix decoder is not called and the result is in the caller's
\* default location.
C10_CompactToISO ==
    (/\ entry \in Dispatched
     /\ AllAsciiDigits(TrimSpace(input))
     /\ Len(TrimSpace(input)) \in {8, 14}) =>
        /\ attempted \in {<<>>, <<"iso">>}
        /\ pc \notin {"panic"}
        /\ Returned => (attempted = <<"iso">> /\ err = NoErr /\ t.kind = "date"
                        /\ t.loc = location)

\* a 14-digit text has gone through the dispatcher
C10_Witness ==
    /\ Returned
    /\ entry = "ParseInLocation"
    /\ Len(TrimSpace(input)) = 14 /\ AllAsciiDigits(TrimSpace(input))
    /\ t.kind = "date" /\ t.loc = MST /\ t.year = 2006 /\ t.sec = 5

\* C11: ParseISOInUTC and ParseISOInLocation call neither the Unix decoder
\* nor a fallback format; when the ISO scanner gives no result they fail with
\* the ISO parse failure that names the trimmed text.
C11_ISOOnly ==
    entry \in {"ParseISOInUTC", "ParseISOInLocation"} =>
        /\ attempted \in {<<>>, <<"iso">>}
        /\ pc # "panic"
        /\ Returned =>
            \/ err = NoErr /\ attempted = <<"iso">>
            \/ err = Error("ISOParseFailure", TrimSpace(input), 0, "", <<>>)

\* an ISO-only call of a text of ten digits between spaces has failed
C11_Witness ==
    /\ Returned
    /\ entry = "ParseISOInLocation"
    /\ input # TrimSpace(input)
    /\ Len(TrimSpace(input)) = 10 /\ AllAsciiDigits(TrimSpace(input))
    /\ err.kind = "ISOParseFailure"
    /\ attempted = <<>>

Matches(k) == ParseInLocation(nonISOTimeFormats[k], timeStr, location).ok

\* C13: when the text is no numeric candidate, the ISO scanner failed and the
\* call is not ISO only, the formats are tried in list order, the first that
\* matches gives the result (in the caller's location when the format has no
\* zone) and no later one is tried; when none matches the call fails with the
\* error of the fallback formats, which names the text.
C13_FallbackOrder ==
    [][(pc = "afterISO" /\ ~isTS /\ ~isoOnly /\ err # NoErr) =>
        LET n == Len(attempted') - 1
        IN  /\ pc' = "done"
            /\ n \in 1..Len(nonISOTimeFormats)
            /\ attempted' = <<"iso">> \o [j \in 1..n |-> "fallback"]
            /\ \A j \in 1..(n - 1) : ~Matches(j)
            /\ IF Matches(n)
               THEN /\ err' = NoErr
                    /\ t' = ParseInLocation(nonISOTimeFormats[n], timeStr, location).t
                    /\ "stdNumTZ" \notin {nonISOTimeFormats[n][c] :
                                            c \in 1..Len(nonISOTimeFormats[n])}
                         => t'.loc = location
               ELSE /\ n = Len(nonISOTimeFormats)
                    /\ err' = Error("NoFallbackFormatMatched", timeStr, 0, "", <<>>)]_vars

\* "Mon, 02 Jan 2006 15:04:05" was matched by the third format after the
\* first two had not matched it
C13_Witness ==
    /\ Returned
    /\ entry = "ParseInLocation"
    /\ Len(timeStr) = 25
    /\ attempted = <<"iso", "fallback", "fallback", "fallback">>
    /\ err = NoErr /\ t.loc = MST /\ t.year = 2006 /\ t.day = 2 /\ t.sec = 5

\* the spellings of a zone that is entirely zero
ZeroZones == {<<"Z">>, <<"z">>, <<"+", "0", "0", "0", "0">>, <<"-", "0", "0", "0", "0">>,
              <<"+", "0", "0">>, <<"-", "0", "0">>}

\* the text is a well-formed date and time followed by f and by one of zs
Spelled(text, f, zs) == \E dt \in GoodDateTimes, z \in zs : text = dt \o f \o z

\* C14: a call of ParseISOTimestamp that read a zone that is entirely zero
\* gives a time in UTC whatever the caller's location, and Z, +0000, -0000,
\* +00 and -00 give the same time; a call that read no zone gives a time in
\* the caller's location.
C14_ZeroZone ==
    /\ (ISOSucceeded /\ zoneFound /\ isZero(parts.zone)) => t.loc = UTC
    /\ (ISOSucceeded /\ ~zoneFound) => t.loc = location
    /\ (Returned /\ entry = "ParseISOTimestamp" /\ Spelled(timeStr, <<>>, ZeroZones)) =>
            /\ err = NoErr /\ zoneFound
            /\ t = Date(2006, 1, 2, 15, 4, 5, 0, UTC)
    /\ (Returned /\ entry = "ParseISOTimestamp" /\ Spelled(timeStr, Frac(1), ZeroZones)) =>
            /\ err = NoErr /\ zoneFound
            /\ t = Date(2006, 1, 2, 15, 4, 5, 100000000, UTC)
    /\ (Returned /\ entry = "ParseISOTimestamp" /\ Spelled(timeStr, <<>>, {<<>>})) =>
            /\ err = NoErr /\ ~zoneFound
            /\ t = Date(2006, 1, 2, 15, 4, 5, 0, location)

\* a text that ends in -00 was parsed with MST as the caller's location
C14_Witness ==
    /\ Returned /\ err = NoErr
    /\ entry = "ParseISOTimestamp"
    /\ location = MST
    /\ Spelled(timeStr, <<>>, {<<"-", "0", "0">>})
    /\ t.loc = UTC

\* ParseISOTimestamp has returned and nothing else was called after it
ISOReturned ==
    /\ attempted = <<"iso">>
    /\ pc = "afterISO" \/ (pc = "done" /\ entry = "ParseISOTimestamp")

\* the offset minutes in the zone buffer: its characters from the third on
ScannedMinutes == DecimalValue(SubSeq(parts.zone, 3, Len(parts.zone)))

\* C15: a successful ParseISOTimestamp result with an explicit zone that is
\* not zero has an offset whose minute component is 0, 15, 30 or 45, and a
\* call whose scanned offset minutes have another value fails, with the
\* error of the quarter hour check unless an earlier check failed.
C15_QuarterHour ==
    /\ (ISOSucceeded /\ zoneFound /\ ~isZero(parts.zone)) =>
            /\ t.loc.name = "FixedZone"
            /\ ((IF t.loc.offset < 0 THEN 0 - t.loc.offset ELSE t.loc.offset) \div 60) % 60
                 \in {0, 15, 30, 45}
    /\ (/\ ISOReturned /\ zoneFound
        /\ Len(parts.zone) >= zoneMax /\ AllAsciiDigits(parts.zone)
        /\ ScannedMinutes \notin {0, 15, 30, 45}) =>
            /\ err # NoErr
            /\ err.kind \notin {"InputTooLong", "UnparsedCharacter", "AmbiguousZoneLength",
                              "FieldLengthMismatch", "NumericDecodeFailure"} =>
                 err = Error("OffsetNotOnQuarterHour", <<>>, ScannedMinutes, "", <<>>)
    /\ (/\ ISOReturned
        /\ \E k \in 0..subsecondMax :
              Spelled(timeStr, Frac(k), {<<"+", "0", "1", "1", "0">>})) =>
            err = Error("OffsetNotOnQuarterHour", <<>>, 10, "", <<>>)

\* a text with the zone +0110 was refused for its 10 offset minutes
C15_Witness ==
    /\ ISOReturned
    /\ Spelled(timeStr, Frac(3), {<<"+", "0", "1", "1", "0">>})
    /\ parts.zone = <<"0", "1", "1", "0">>
    /\ err.kind = "OffsetNotOnQuarterHour" /\ err.n = 10

\* the offset hours and minutes in the zone buffer: its first two characters
\* and its next two
ScannedOffset ==
    DecimalValue(SubSeq(parts.zone, 1, 2)) * 3600 + DecimalValue(SubSeq(parts.zone, 3, 4)) * 60

\* the time the scanned fields make in the location loc
ScannedDate(loc) ==
    Date(DecimalValue(parts.year), DecimalValue(parts.month), DecimalValue(parts.day),
         DecimalValue(parts.hour), DecimalValue(parts.minute), DecimalValue(parts.second),
         t.nsec, loc)

\* C16: a successful ISO parse with an explicit zone that is not zero has the
\* offset sign x (HH x 3600 + MM x 60), HH the first two and MM the next two
\* characters of the zone, positive after "+" and negative after "-", and its
\* time is made of the scanned fields at that offset.
C16_OffsetValue ==
    (ISOSucceeded /\ zoneFound /\ ~isZero(parts.zone)) =>
        /\ ZoneSigns(timeStr) = {"+"} => t.loc.offset = ScannedOffset
        /\ ZoneSigns(timeStr) = {"-"} => t.loc.offset = 0 - ScannedOffset
        /\ t.loc.offset \in {ScannedOffset, 0 - ScannedOffset}
        /\ t = ScannedDate(t.loc)

\* C17: when the scan left no unparsed character, a zone buffer of 1 or of 3
\* characters fails with the error of the zone length, a zone buffer of 2
\* characters is read as hours with the minutes 00, and a parse succeeds only
\* with 0, 2 or 4 characters in the zone buffer before the padding.
C17_ZoneLength ==
    [][(pc = "scanned" /\ unparsed = <<>>) =>
        /\ Len(parts.zone) \in {1, 3} =>
             err' = Error("AmbiguousZoneLength", <<>>, Len(parts.zone), "", <<>>)
        /\ err' = NoErr => Len(parts.zone) \in {0, 2, 4}
        /\ (Len(parts.zone) = 2 /\ err' = NoErr) =>
             /\ parts'.zone = parts.zone \o <<"0", "0">>
             /\ t'.loc.offset \in {DecimalValue(parts.zone) * 3600,
                                   0 - DecimalValue(parts.zone) * 3600}]_vars

\* C18: when the hour, minute and second buffers are all empty after the
\* scan they all become "00" and a date alone parses to midnight of its day;
\* when one of them is not empty none is changed, and a short one makes the
\* call fail with a field length error.
C18_DateOnly ==
    [][(pc = "scanned" /\ unparsed = <<>> /\ Len(parts.zone) \notin {1, 3}) =>
        IF parts.hour = <<>> /\ parts.minute = <<>> /\ parts.second = <<>>
        THEN /\ parts'.hour = <<"0", "0">>
             /\ parts'.minute = <<"0", "0">>
             /\ parts'.second = <<"0", "0">>
             /\ (/\ Len(parts.year) = yearMax /\ AllAsciiDigits(parts.year)
                 /\ Len(parts.month) = monthMax /\ AllAsciiDigits(parts.month)
                 /\ Len(parts.day) = dayMax /\ AllAsciiDigits(parts.day)) =>
                    /\ err' = NoErr
                    /\ t' = Date(DecimalValue(parts.year), DecimalValue(parts.month),
                                 DecimalValue(parts.day), 0, 0, 0, 0, t'.loc)
             /\ timeStr = <<"2", "0", "0", "6", "0", "1", "0", "2">> =>
                    t' = Date(2006, 1, 2, 0, 0, 0, 0, location)
        ELSE /\ parts'.hour = parts.hour
             /\ parts'.minute = parts.minute
             /\ parts'.second = parts.second
             /\ (\/ Len(parts.hour) # hourMax
                 \/ Len(parts.minute) # minuteMax
                 \/ Len(parts.second) # secondMax) =>
                    err'.kind = "FieldLengthMismatch"]_vars

\* "20060102" was parsed to midnight in MST
C18_Witness ==
    /\ ISOReturned /\ err = NoErr
    /\ timeStr = <<"2", "0", "0", "6", "0", "1", "0", "2">>
    /\ parts.hour = <<"0", "0">> /\ parts.minute = <<"0", "0">> /\ parts.second = <<"0", "0">>
    /\ t = Date(2006, 1, 2, 0, 0, 0, 0, MST)

\* the fields in the order of the length checks, and their lengths
FieldOrder == <<"year", "month", "day", "hour", "minute", "second">>

\* the buffers of year .. second of bufs all have their full length
AllFull(bufs) == \A k \in 1..Len(FieldOrder) : Len(bufs[FieldOrder[k]]) = PartMax(FieldOrder[k])

\* C19: past the date-only default a call of ParseISOTimestamp succeeds only
\* with 4 digits of year and 2 each of month, day, hour, minute and second;
\* otherwise it fails with the field length error that names the first of
\* year, month, day, hour, minute, second whose buffer is not full.
C19_FieldLengths ==
    /\ ISOSucceeded => AllFull(parts)
    /\ (ISOReturned /\ err.kind \notin {"InputTooLong", "UnparsedCharacter", "AmbiguousZoneLength"}) =>
         IF AllFull(parts) THEN err.kind # "FieldLengthMismatch"
         ELSE \E k \in 1..Len(FieldOrder) :
                 /\ Len(parts[FieldOrder[k]]) # PartMax(FieldOrder[k])
                 /\ \A j \in 1..(k - 1) : Len(parts[FieldOrder[j]]) = PartMax(FieldOrder[j])
                 /\ err = Error("FieldLengthMismatch", <<>>, 0, FieldOrder[k], <<>>)

\* a text of three digits failed on its year, its month being empty too
C19_Witness ==
    /\ ISOReturned
    /\ Len(timeStr) = 3
    /\ Len(parts.year) = 3 /\ parts.month = <<>>
    /\ parts.hour = <<"0", "0">>
    /\ err.kind = "FieldLengthMismatch" /\ err.field = "year"

\* the k-th character of the text can not be parsed where it stands: the
\* loop has no branch for it, or it is a Z before the seconds are complete
Offending(k) ==
    \/ timeStr[k] \notin
            AsciiDigits \cup {NonAsciiDigit, ".", "+", "-", "T", "t", ":", "/", "Z", "z"}
            \cup {c \in {" ", NonAsciiSpace} : IsSpace(c)}
    \/ timeStr[k] \in {"Z", "z"} /\ DigitsUpTo(timeStr, k) < 14

\* the entry of the unparsed list for the k-th character of the text
Entry(k) == [rune |-> timeStr[k], pos |-> ByteIndex(timeStr, k)]

\* C20: the scan goes on after an unparsable character: every such
\* character read so far is in the unparsed list once, with its position, in
\* the order of the text; the loop ends before the end of the text only at a
\* Z that it accepted; and a call with a non-empty list fails with the one
\* error that carries the whole list.
C20_AllUnparsed ==
    /\ pc \in {"scan", "scanned"} =>
        /\ \A k \in 1..(i - 1) : Offending(k) =>
              Cardinality({j \in 1..Len(unparsed) : unparsed[j] = Entry(k)}) = 1
        /\ \A j \in 1..Len(unparsed) : \E k \in 1..(i - 1) : unparsed[j] = Entry(k)
        /\ \A j \in 1..(Len(unparsed) - 1) : unparsed[j].pos < unparsed[j + 1].pos
        /\ (pc = "scanned" /\ i <= Len(timeStr)) =>
              /\ timeStr[i - 1] \in {"Z", "z"}
              /\ \A j \in 1..Len(unparsed) : unparsed[j] # Entry(i - 1)
    /\ (ISOReturned /\ unparsed # <<>>) =>
              err = Error("UnparsedCharacter", timeStr, 0, "", unparsed)

\* a call failed with five unparsed characters in its error
C20_Witness ==
    /\ ISOReturned
    /\ err.kind = "UnparsedCharacter"
    /\ Len(err.unparsed) = 5
    /\ err.unparsed[1] = [rune |-> "w", pos |-> 4]
    /\ err.unparsed[5] = [rune |-> "c", pos |-> 19]

\* C21: whether ParseISOTimestamp succeeds depends on the form of the input
\* only (buffers of full length, ASCII digits only and, in a zone that is
\* not zero, minutes on a quarter hour) and not on the values of its fields:
\* month 13, day 40, hour 40 and second 61 are accepted, and the decoded
\* values are passed as they are to time.Date.
C21_NoRangeCheck ==
    /\ (ISOReturned /\ err.kind \notin {"InputTooLong", "UnparsedCharacter", "AmbiguousZoneLength"}) =>
            (err = NoErr <=>
                /\ AllFull(parts)
                /\ \A p \in PartNames : AllAsciiDigits(parts[p]) \/ parts[p] = <<>>
                /\ isZero(parts.zone) \/ ScannedMinutes \in {0, 15, 30, 45})
    /\ ISOSucceeded => t = ScannedDate(t.loc)

\* a text with month 13, day 40, hour 40, minute 61 and second 61 was parsed
C21_Witness ==
    /\ ISOSucceeded
    /\ t.month = 13 /\ t.day = 40 /\ t.hour = 40 /\ t.min = 61 /\ t.sec = 61

\* C22: ParseISOTimestamp refuses as too long the inputs of more than 35
\* characters and no others, and it does so before it scans a character, so
\* that no unparsed character is reported for them.
C22_TooLong ==
    ISOReturned =>
        /\ err.kind = "InputTooLong" <=> Len(timeStr) > maxLength
        /\ err.kind = "InputTooLong" => (unparsed = <<>> /\ i = 1 /\ parts = EmptyParts)

\* C23: a successful ISO parse with k subsecond digits of value v, k from 1
\* to 9, has v x 10^(9-k) nanoseconds, and 0 nanoseconds without subsecond
\* digits; the nanoseconds lie between 0 and 999,999,999.
C23_Nanoseconds ==
    /\ ISOSucceeded =>
        /\ Len(parts.subsecond) \in 0..subsecondMax
        /\ t.nsec = IF parts.subsecond = <<>> THEN 0
                    ELSE DecimalValue(parts.subsecond)
                           * Pow10(subsecondMax - Len(parts.subsecond))
        /\ t.nsec \in 0..999999999
    /\ \A k \in 0..subsecondMax :
         (ISOSucceeded /\ Spelled(timeStr, Frac(k), Zones)) =>
            /\ parts.subsecond = SubSeq(FracSource, 1, k)
            /\ k = 1 => t.nsec = 100000000
            /\ k = 3 => t.nsec = 123000000
            /\ k = 9 => t.nsec = 123456789
    /\ (ISOSucceeded /\ Spelled(timeStr, <<".", "0", "0", "0">>, Zones)) => t.nsec = 0

\* a text with the fraction .123 was parsed to 123,000,000 nanoseconds
C23_Witness ==
    /\ ISOSucceeded
    /\ Spelled(timeStr, Frac(3), {<<"Z">>})
    /\ parts.subsecond = <<"1", "2", "3">>
    /\ t.nsec = 123000000

\* a direct call of ParseUnixTS has ended

\* C24: ParseUnixTS returns its decode failure and the zero time for every
\* text that is not digits, or digits "." digits, and for every text of 6
\* characters or fewer.
C24_UnixRefused ==
    (/\ entry = "ParseUnixTS" /\ pc \in {"done", "panic"}
     /\ ~DigitsDotDigits(timeStr) \/ Len(timeStr) <= 6) =>
        /\ pc = "done"
        /\ err = Error("UnixDecodeFailure", timeStr, 0, "", <<>>)
        /\ t = ZeroTime

\* ParseUnixTS has refused a text of digits with more than one decimal point
C24_Witness ==
    /\ entry = "ParseUnixTS" /\ pc \in {"done", "panic"}
    /\ timeStr = <<"1", ".", "2", ".", "3">>
    /\ err.kind = "UnixDecodeFailure" /\ t = ZeroTime

\* C25: for a text of more than 10 digits without a decimal point
\* ParseUnixTS takes the characters [0,10) as the seconds and the characters
\* [11, L-1) as the fraction, which it scales to nanoseconds; a text of 19
\* digits is decoded without error.
C25_FusedDigits ==
    (/\ entry = "ParseUnixTS" /\ pc \in {"done", "panic"}
     /\ AllAsciiDigits(timeStr) /\ Len(timeStr) > 10) =>
        /\ pc = "done"
        /\ IF SubSeq(timeStr, 12, Len(timeStr) - 1) = <<>>
           THEN err # NoErr
           ELSE /\ err = NoErr
                /\ t.kind = "unix"
                /\ t.unix = DecimalValue(SubSeq(timeStr, 1, 10))
                /\ Len(SubSeq(timeStr, 12, Len(timeStr) - 1)) <= 9 =>
                     t.nsec = DecimalValue(SubSeq(timeStr, 12, Len(timeStr) - 1))
                                * Pow10(9 - Len(SubSeq(timeStr, 12, Len(timeStr) - 1)))
        /\ Len(timeStr) = 19 => err = NoErr

\* C26: an accepted text that is not a string of more than 10 digits without
\* a decimal point is used as it is: the digits left of the first "." are the
\* seconds and the k digits right of it give value x 10^(9-k) nanoseconds
\* (0 without a fraction); a text with a "." that is longer than 10
\* characters loses no character.
C26_AsIs ==
    LET dot == FirstDot(timeStr)
        seconds == IF dot = 0 THEN timeStr ELSE SubSeq(timeStr, 1, dot - 1)
        fraction == IF dot = 0 THEN <<>> ELSE SubSeq(timeStr, dot + 1, Len(timeStr))
    IN  (/\ entry = "ParseUnixTS" /\ pc \in {"done", "panic"}
         /\ DigitsDotDigits(timeStr)
         /\ Len(timeStr) > 6
         /\ ~(AllAsciiDigits(timeStr) /\ Len(timeStr) > 10)
         /\ Len(seconds) <= 10
         /\ Len(fraction) <= 9) =>
            /\ pc = "done"
            /\ err = NoErr
            /\ t.kind = "unix"
            /\ t.unix = DecimalValue(seconds)
            /\ t.nsec = IF fraction = <<>>
                        THEN 0
                        ELSE DecimalValue(fraction) * Pow10(9 - Len(fraction))

\* C28: every successful call of ParseInUTC or ParseISOInUTC returns a time
\* whose zone offset is 0, also for a text that names an offset of its own.
C28_UTCZoned ==
    (Succeeded /\ entry \in {"ParseInUTC", "ParseISOInUTC"}) => t.loc.offset = 0

\* the instant of a time to the precision of a format function: milliseconds
\* for the two functions that write them, seconds for the others
ToPrecision(fn, tm) ==
    [Instant(tm) EXCEPT !.nsec = IF fn \in {"ISO8601CompactMsec", "ISO8601Msec"}
                                 THEN @ \div 1000000
                                 ELSE 0]

\* C27: the text a format function gives for the time of a successful parse
\* parses again, with ParseInLocation, to the same instant, to the precision
\* of the format, and for the four ISO functions to the same UTC offset.
C27_RoundTrip ==
    (pc = "done" /\ formatFn # "") =>
        /\ err = NoErr
        /\ ToPrecision(formatFn, t) = ToPrecision(formatFn, origin)
        /\ formatFn # "RFC7232" => Zone(t) = Zone(origin)

\* C29: with equal UTC offsets of start and end the calls return, without
\* error, midnight of each day from the start's date to the end's date, in
\* order and once each, and after that the zero time without error, at once
\* when the start's date is after the end's.
C29_EachDay ==
    Zone(rangeArgs.start) = Zone(rangeArgs.end) =>
        \A k \in 1..Len(results) :
            /\ results[k].err = NoErr
            /\ IF k <= Clock(rangeArgs.end).days - Clock(rangeArgs.start).days + 1
               THEN /\ results[k].time.kind = "date"
                    /\ results[k].time.loc = rangeArgs.start.loc
                    /\ Clock(results[k].time)
                         = Reading(Clock(rangeArgs.start).days + k - 1, 0, 0)
               ELSE results[k].time = ZeroTime

C31_Monotonic ==
    [][Scan =>
        LET r == timeStr[i]
            filled ==
                /\ currentSection \in emptySection..zoneSection
                /\ Len(parts[SectionPart(currentSection)]) < PartMax(SectionPart(currentSection))
                /\ Len(parts'[SectionPart(currentSection)]) = PartMax(SectionPart(currentSection))
        IN  /\ currentSection' >= currentSection
            /\ currentSection' # currentSection =>
                \/ IsDigit(r) /\ filled
                \/ IsDigit(r) /\ currentSection = emptySection /\ currentSection' = yearSection
                \/ /\ r \in {"+", "-"}
                   /\ currentSection = subsecondSection
                   /\ currentSection' = zoneSection
                   /\ parts' = parts
    ]_vars

\* a sign read in Subsecond has moved the scanner to Zone with the subsecond
\* buffer not full
C31_Witness ==
    /\ pc = "scan"
    /\ i > 1
    /\ timeStr[i - 1] \in {"+", "-"}
    /\ currentSection = zoneSection
    /\ parts.zone = <<>>
    /\ Len(parts.subsecond) \in 1..(subsecondMax - 1)

\* C32: no digit is dropped by the scan: a digit read is appended to the
\* buffer of the section, which is not yet full, or, in the After section,
\* recorded as unparsed; and before and after every pass of the loop the
\* buffers of the sections before the current one among year .. second are
\* full and the buffers of the later sections are empty.
C32_NoDigitDropped ==
    [][Scan =>
        LET r == timeStr[i]
            names == FieldOrder \o <<"subsecond", "zone">>
            Ordered(section, bufs) ==
                \A k \in 1..Len(names) :
                    /\ (k < section /\ k <= secondSection) =>
                            Len(bufs[names[k]]) = PartMax(names[k])
                    /\ k > section => bufs[names[k]] = <<>>
        IN  /\ IsDigit(r) =>
                IF currentSection = afterSection
                THEN /\ unparsed' = Append(unparsed, Unparsed(r, ByteIndex(timeStr, i)))
                     /\ parts' = parts
                ELSE /\ Len(parts[SectionPart(currentSection)]) < PartMax(SectionPart(currentSection))
                     /\ parts' = [parts EXCEPT ![SectionPart(currentSection)] = Append(@, r)]
                     /\ unparsed' = unparsed
            /\ Ordered(currentSection, parts)
            /\ Ordered(currentSection', parts')
    ]_vars

\* C32 as the code has it: the same, but the pass that accepts a "Z" or "z"
\* in the Subsecond section, which is the last pass of the loop, leaves the
\* zone buffer, the buffer of a later section, holding "0000".
C32_NoDigitDroppedButZulu ==
    [][Scan =>
        LET r == timeStr[i]
            names == FieldOrder \o <<"subsecond", "zone">>
            Ordered(section, bufs) ==
                \A k \in 1..Len(names) :
                    /\ (k < section /\ k <= secondSection) =>
                            Len(bufs[names[k]]) = PartMax(names[k])
                    /\ k > section => bufs[names[k]] = <<>>
        IN  /\ IsDigit(r) =>
                IF currentSection = afterSection
                THEN /\ unparsed' = Append(unparsed, Unparsed(r, ByteIndex(timeStr, i)))
                     /\ parts' = parts
                ELSE /\ Len(parts[SectionPart(currentSection)]) < PartMax(SectionPart(currentSection))
                     /\ parts' = [parts EXCEPT ![SectionPart(currentSection)] = Append(@, r)]
                     /\ unparsed' = unparsed
            /\ Ordered(currentSection, parts)
            /\ IF r \in {"Z", "z"} /\ currentSection = subsecondSection
               THEN /\ pc' = "scanned"
                    /\ currentSection' = subsecondSection
                    /\ parts'.zone = <<"0", "0", "0", "0">>
                    /\ Ordered(currentSection', [parts' EXCEPT !.zone = <<>>])
               ELSE Ordered(currentSection', parts')
    ]_vars

\* a digit read in the After section has been recorded as unparsed, with
\* every buffer of year .. second and the zone buffer full
C32_Witness ==
    /\ pc = "scanned"
    /\ i = Len(timeStr) + 1
    /\ currentSection = afterSection
    /\ IsDigit(timeStr[i - 1])
    /\ unparsed = <<Unparsed(timeStr[i - 1], ByteIndex(timeStr, i - 1))>>
    /\ AllFull(parts)
    /\ Len(parts.zone) = zoneMax

\* C33: a "T", "t", ":", "/", "." or whitespace character leaves the
\* section, the eight buffers, the zone sign and the unparsed list as they
\* were, whatever the section is, and so the text of a ParseISOTimestamp
\* call with one such character inserted at any place, if it is of 35
\* characters or fewer, gives the same time and the same error (its kind,
\* the field or number it names and the runes it lists).
C33_Separators ==
    /\ [][(Scan /\ (timeStr[i] \in {"T", "t", ":", "/", "."} \/ IsSpace(timeStr[i]))) =>
            UNCHANGED <<currentSection, parts, offsetPositive, unparsed>>]_vars
    /\ [](LET Named(e) == <<e.kind, e.n, e.field,
                            [j \in 1..Len(e.unparsed) |-> e.unparsed[j].rune]>>
              Outcome(r) == <<Named(r.err), r.t, r.lookup, r.offsetSec>>
              here == ParseISOTimestamp(timeStr, location)
          IN  (ISOReturned /\ entry = "ParseISOTimestamp" /\ Len(timeStr) < maxLength) =>
                /\ Named(err) = Named(here.err)
                /\ [t EXCEPT !.loc = here.t.loc] = here.t
                /\ \A k \in 0..Len(timeStr) :
                     \A c \in {"T", "t", ":", "/", ".", " ", NonAsciiSpace} :
                        Outcome(ParseISOTimestamp(
                            SubSeq(timeStr, 1, k) \o <<c>> \o SubSeq(timeStr, k + 1, Len(timeStr)),
                            location)) = Outcome(here))

\* C34: a "+" or "-" read in the Subsecond section sets the zone sign and
\* moves the scanner to Zone; read in any other section, Zone included, it
\* changes no buffer, not the sign and not the section, and it is not put
\* on the unparsed list.
C34_Sign ==
    [][(Scan /\ timeStr[i] \in {"+", "-"}) =>
        IF currentSection = subsecondSection
        THEN /\ offsetPositive' = (timeStr[i] = "+")
             /\ currentSection' = zoneSection
             /\ UNCHANGED <<parts, unparsed>>
        ELSE UNCHANGED <<currentSection, offsetPositive, parts, unparsed>>
    ]_vars

\* a "-" read in the Zone section after a "+" has left the sign positive
C34_Witness ==
    /\ pc = "scan"
    /\ i > 2
    /\ timeStr[i - 2] = "+"
    /\ timeStr[i - 1] = "-"
    /\ currentSection = zoneSection
    /\ offsetPositive
    /\ parts.zone = <<>>
    /\ unparsed = <<>>

\* C35: ParseISOTimestamp reports the first check that fails, in the order:
\* input too long, unparsed characters, zone of ambiguous length, length of
\* a field from year to second, decoding of the digits, offset minutes not
\* on a quarter hour; with an unparsed character recorded the zone and the
\* fields are not looked at, and the error carries the unparsed characters.
C35_ErrorOrder ==
    ISOReturned =>
        LET foreign == \E p \in PartNames : \E k \in 1..Len(parts[p]) :
                            parts[p][k] \notin AsciiDigits
            first ==
                IF ByteLen(timeStr) > maxLength THEN "InputTooLong"
                ELSE IF unparsed # <<>> THEN "UnparsedCharacter"
                ELSE IF Len(parts.zone) \in {1, 3} THEN "AmbiguousZoneLength"
                ELSE IF ~AllFull(parts) THEN "FieldLengthMismatch"
                ELSE IF foreign THEN "NumericDecodeFailure"
                ELSE IF ~isZero(parts.zone) /\ ScannedMinutes \notin {0, 15, 30, 45}
                THEN "OffsetNotOnQuarterHour"
                ELSE "nil"
        IN  /\ err.kind = first
            /\ first = "UnparsedCharacter" =>
                    err = Error("UnparsedCharacter", timeStr, 0, "", unparsed)

\* a text with an unparsed character and without its seconds failed with
\* the unparsed characters only
C35_Witness ==
    /\ ISOReturned
    /\ Len(parts.minute) = minuteMax
    /\ parts.second = <<>>
    /\ Len(unparsed) = 1
    /\ err = Error("UnparsedCharacter", timeStr, 0, "", unparsed)

\* C36: a call of LocationFromOffset for an offset that is in the published
\* cache returns the handle cached for it; when the cache it finds holds more
\* than 50 entries it leaves the published cache empty, the entry it returned
\* gone as well, and when it holds 50 or fewer it leaves the cache as it was.
C36_FullReset ==
    [][(lastCall'.made /\ lastCall'.offsetSec \in DOMAIN Cache) =>
        /\ lastCall'.hit
        /\ lastCall'.location = Cache[lastCall'.offsetSec]
        /\ IF Cardinality(DOMAIN Cache) > MaxCachedZones
           THEN /\ Cache' = EmptyMap
                /\ DOMAIN Cache' = {}
           ELSE /\ locationAtomic' = locationAtomic
                /\ Cache' = Cache
    ]_vars

\* a hit that found 51 entries has returned its handle and left the cache empty
C36_Witness ==
    /\ lastCall.made /\ lastCall.hit /\ lastCall.reset
    /\ lastCall.found = MaxCachedZones + 1
    /\ lastCall.location.offset = lastCall.offsetSec
    /\ lastCall.location.id >= 1
    /\ DOMAIN Cache = {}

\* C37: in a call of an entry point the offset cache is read or changed only
\* at the end of a ParseISOTimestamp call that passed every check and whose
\* zone is explicit and not all zeros; every other step, and so every failing
\* parse, every ISO parse without zone or with a zero zone, every Unix decode
\* and every parse by a fallback format, leaves the cache as it was.
C37_CacheFrame ==
    [][(<<cacheVars, lastCall, prevCall>>' # <<cacheVars, lastCall, prevCall>>) =>
        /\ pc = "scanned"
        /\ attempted' = <<"iso">>
        /\ err' = NoErr
        /\ zoneFound'
        /\ \E k \in 1..Len(parts'.zone) : parts'.zone[k] # "0"
        /\ lastCall'.made
        /\ t'.loc = lastCall'.location
    ]_vars

\* a parse refused for offset minutes not on a quarter hour has returned
\* with the cache of two entries it found and without a lookup
C37_Witness ==
    /\ ISOReturned
    /\ err.kind = "OffsetNotOnQuarterHour"
    /\ ~lastCall.made
    /\ locationAtomic = 0
    /\ DOMAIN Cache = {3600, 0 - 25200}
    /\ nextHandle = 3

\* C38: with callers of LocationFromOffset running concurrently, a reset
\* that was completed is not undone: an entry that was inserted into a cache
\* map and is no longer in the published cache, as every entry is after a
\* reset, does not become visible in the published cache again (a caller that
\* holds the map of before the reset does not publish it again).
C38_ResetStays ==
    [][\A m \in MapIds : \A o \in DOMAIN zoneMaps[m] :
            (o \notin DOMAIN Cache \/ Cache[o] # zoneMaps[m][o]) =>
                (o \notin DOMAIN Cache' \/ Cache'[o] # zoneMaps[m][o])
    ]_vars

\* C39: the ISO-only entry points agree with the scanner: a call of
\* ParseISOInUTC or ParseISOInLocation succeeds exactly when
\* ParseISOTimestamp of the trimmed text and the same location succeeds, and
\* then with the same time, also for a text of digits, or of digits, "." and
\* digits, whose length is neither 8 nor 14.
C39_ISOOnlyAgrees ==
    (Returned /\ entry \in {"ParseISOInUTC", "ParseISOInLocation"}) =>
        LET raw == ParseISOTimestamp(TrimSpace(input), location)
        IN  /\ err = NoErr <=> raw.err = NoErr
            /\ err = NoErr =>
                IF raw.lookup
                THEN /\ t = [raw.t EXCEPT !.loc = t.loc]
                     /\ t.loc.name = "FixedZone"
                     /\ t.loc.offset = raw.offsetSec
                ELSE t = raw.t

\* C40: a text of a date only carries no zone: a ParseISOTimestamp call that
\* succeeds after its empty hour, minute and second buffers were given "00"
\* had an empty zone buffer and an empty subsecond buffer, and its result is
\* midnight of the date in the caller's location; and during and after the
\* scan, when the zone buffer or the subsecond buffer is not empty the
\* buffers of year, month, day, hour, minute and second are all full.
C40_DateOnlyNoZone ==
    /\ [][(ParseISOTimestampFinish /\ err' = NoErr
           /\ parts.hour = <<>> /\ parts.minute = <<>> /\ parts.second = <<>>) =>
            /\ parts.zone = <<>>
            /\ parts.subsecond = <<>>
            /\ ~zoneFound'
            /\ t'.loc = location
            /\ <<t'.hour, t'.min, t'.sec, t'.nsec>> = <<0, 0, 0, 0>>
            /\ <<parts'.hour, parts'.minute, parts'.second>>
                    = <<<<"0", "0">>, <<"0", "0">>, <<"0", "0">>>>
      ]_vars
    /\ []((pc \in {"scan", "scanned"} /\ (parts.zone # <<>> \/ parts.subsecond # <<>>)) =>
            \A p \in {"year", "month", "day", "hour", "minute", "second"} :
                Len(parts[p]) = PartMax(p))

\* a date with dashes has been parsed as midnight in the caller's location MST
C40_Witness ==
    /\ ISOReturned
    /\ err = NoErr
    /\ Len(timeStr) = 10
    /\ location = MST
    /\ ~zoneFound
    /\ parts.subsecond = <<>>
    /\ t = Date(2006, 1, 2, 0, 0, 0, 0, MST)

====
